---- MODULE Spec2Model ----
(***************************************************************************)
(* Authentication and authorisation core of the house-association API:     *)
(* the relational store (users, house associations, memberships) with its  *)
(* unique indexes and foreign keys, the HA / member / user services that   *)
(* read and write it, the token service and the request guards.            *)
(*                                                                         *)
(* A service call is a sequence of store calls (one per await).  One call, *)
(* `call`, is observed step by step; between any two of its steps other    *)
(* clients' calls run (concurrentCall), each from start to end.  Every     *)
(* handler writes at most once, as its last store call (deleteHA's writes  *)
(* are one transaction, visible at its commit), so each interleaving of    *)
(* two calls is equivalent to one in which one of the two runs without     *)
(* interruption: the reads of the call that writes first commute with the  *)
(* other's reads.                                                          *)
(*                                                                         *)
(* Spec is the store with the HA, member and user services; SpecUsers the  *)
(* users table with registration, profile update, password change and      *)
(* deletion called as service functions; SpecAuth the server process from  *)
(* its start (validateEnv) with the token service, the request guards and  *)
(* the auth and user controllers; SpecHA the HA and member services with   *)
(* their reads (getHAById, listMembers, listHAs) and with store calls that *)
(* throw; SpecKennitala validateKennitala on its own; SpecFrame the        *)
(* operations on principals and house associations in sequence, with       *)
(* logins and token refreshes in between.                                  *)
(***************************************************************************)
EXTENDS Integers, Sequences, FiniteSets, TLC

\* ---------------------------------------------------------------- bounds
MaxUsers == 3        \* user rows ever created (generated ids are never reused)
MaxHAs == 2          \* house associations ever created

UserIds == 1..MaxUsers
HaIds == 1..MaxHAs

NULL == "null"
HA_MANAGER == "HA_MANAGER"
PROPERTY_OWNER == "PROPERTY_OWNER"
UserRole == {HA_MANAGER, PROPERTY_OWNER}

\* The request payloads the model draws from.
Kennitalas == {"0101701234", "0202801234"}
RegistrationNums == {"701111-2222", "702222-3333"}
RegisterPayloads ==
    { [email |-> "m@x.is", password |-> "Str0ng!pw-m", role |-> HA_MANAGER,
       kennitala |-> NULL],
      [email |-> "n@x.is", password |-> "Str0ng!pw-n", role |-> HA_MANAGER,
       kennitala |-> "0202801234"],
      [email |-> "p@x.is", password |-> "Str0ng!pw-p", role |-> PROPERTY_OWNER,
       kennitala |-> "0101701234"] }

VARIABLES
    db,      \* the store: tables users, has, memberships and the id generators
    call,    \* the observed service call: operation, arguments, locals, position
    env,     \* process.env: JWT_SECRET, JWT_REFRESH_SECRET
    now,     \* Date.now(), in milliseconds
    issued,  \* the tokens handed out so far, each with the function that made it
    req,     \* the observed HTTP exchange: request, response, guards passed
    proc     \* the server process: "starting", "running" or "exited"

vars == <<db, call, env, now, issued, req, proc>>
storeVars == <<db, call>>
authVars == <<env, now, issued, req, proc>>

\* ------------------------------------------------------ store (Prisma) reads
\* db.users: rows [id, email, password, role, kennitala]; db.has: rows [id, registrationNum,
\* managerId]; db.memberships: number of rows per <<userId, haId>>.
userById(d, id) == {u \in d.users : u.id = id}
userByEmail(d, email) == {u \in d.users : u.email = email}
userByKennitala(d, k) == {u \in d.users : u.kennitala = k}
haById(d, id) == {h \in d.has : h.id = id}
\* findFirst({registrationNum, id: {not: excludeHAId}}); excludeHAId = 0: no exclusion
haByRegistrationNum(d, reg, excludeHAId) ==
    {h \in d.has : h.registrationNum = reg /\ (excludeHAId = 0 \/ h.id # excludeHAId)}
membershipCount(d, userId, haId) == d.memberships[<<userId, haId>>]
managedHAs(d, userId) == {h \in d.has : h.managerId = userId}

\* ------------------------------------- store constraints (migration.sql)
\* (mutant) no unique index on "users"
UserUniqueOkNoIndex(d, email, kennitala) == TRUE

\* users_kennitala_key, for the row with id `id`
KennitalaUniqueOk(d, kennitala, id) ==
    kennitala # NULL => {u \in d.users : u.kennitala = kennitala /\ u.id # id} = {}
\* users_email_key, users_kennitala_key (NULLs never collide)
UserUniqueOk(d, email, kennitala) ==
    /\ userByEmail(d, email) = {}
    /\ (kennitala # NULL => userByKennitala(d, kennitala) = {})
\* (mutant) no unique index on "house_associations"("registrationNum")
RegistrationNumUniqueOkNoIndex(d, reg, id) == TRUE
\* house_associations_registrationNum_key, for the row with id `id`
RegistrationNumUniqueOk(d, reg, id) ==
    {h \in d.has : h.registrationNum = reg /\ h.id # id} = {}
\* ha_memberships_userId_haId_key
MembershipUniqueOk(d, userId, haId) == membershipCount(d, userId, haId) = 0
\* ha_memberships_userId_fkey, ha_memberships_haId_fkey
MembershipForeignKeysOk(d, userId, haId) ==
    userById(d, userId) # {} /\ haById(d, haId) # {}
\* (mutant) no foreign key on "house_associations"("managerId")
ManagerForeignKeyOkNoKey(d, managerId) == TRUE
\* house_associations_managerId_fkey
ManagerForeignKeyOk(d, managerId) == userById(d, managerId) # {}
\* ON DELETE RESTRICT on the references to "users"
UserDeleteRestrictOk(d, userId) ==
    /\ managedHAs(d, userId) = {}
    /\ \A h \in HaIds : membershipCount(d, userId, h) = 0

\* ------------------------------------------------------------ call records
Idle == [op |-> "none", pc |-> "idle", status |-> 0, haId |-> 0, userId |-> 0]
\* A call that has returned (200) or thrown (the status its error carries): what
\* its caller knows, the arguments haId and userId (0 when the call has none)
\* and the outcome; the locals are gone.
Arg(r, name) == IF name \in DOMAIN r THEN r[name] ELSE 0
Done(r, status) ==
    [op |-> r.op, pc |-> "done", status |-> status,
     haId |-> Arg(r, "haId"), userId |-> Arg(r, "userId")]
Goto(r, pc) == [r EXCEPT !.pc = pc]
Out(d, r) == [db |-> d, r |-> r]
Free == call.pc = "idle"

\* bcrypt: the hash of a password, and the comparison of a password with a hash.
hashPassword(password) == [bcrypt |-> password]
comparePassword(password, hashedPassword) == hashedPassword = [bcrypt |-> password]

\* Signing keys of 32 characters and more, as validateEnv requires.
SecretA == "secretA-0123456789abcdef0123456789"
SecretB == "secretB-0123456789abcdef0123456789"

\* No exchange observed: the request and response objects of the next one.
NoRequest ==
    [op |-> "none", route |-> [chain |-> <<>>, allowedRoles |-> {}],
     authorization |-> <<>>, user |-> {}, tokenPayload |-> {},
     status |-> 0, code |-> NULL, sent |-> 0, lookup |-> "none",
     nexts |-> <<>>, handler |-> FALSE,
     target |-> 0, pc |-> "done", granted |-> FALSE,
     body |-> {}, json |-> {}]

InitStore ==
    /\ db = [users |-> {}, has |-> {},
             memberships |-> [p \in UserIds \X HaIds |-> 0],
             nextUserId |-> 1, nextHaId |-> 1]
    /\ call = Idle

\* The store and the services on their own: no token is issued, no request guarded.
Init ==
    /\ InitStore
    /\ env = [JWT_SECRET |-> SecretA, JWT_REFRESH_SECRET |-> NULL]
    /\ now = 0
    /\ issued = {}
    /\ req = NoRequest
    /\ proc = "running"

\* ------------------------------------------- AuthService.registerUser
registerUserStart(p) ==
    [op |-> "registerUser", pc |-> "findEmail", status |-> 0,
     email |-> p.email, password |-> p.password, role |-> p.role,
     kennitala |-> p.kennitala]

\* 'User with this email already exists' is a 409 at the controller.
registerUserFindEmail(d, r) ==
    IF userByEmail(d, r.email) # {} THEN Out(d, Done(r, 409))
    ELSE IF r.kennitala # NULL THEN Out(d, Goto(r, "findKennitala"))
    ELSE Out(d, Goto(r, "create"))

registerUserFindKennitala(d, r) ==
    IF userByKennitala(d, r.kennitala) # {} THEN Out(d, Done(r, 409))
    ELSE Out(d, Goto(r, "create"))

\* prisma.user.create: the unique indexes decide; the store's own error is not
\* an 'already exists' message and reaches the client as a 500.
registerUserCreate(d, r) ==
    IF UserUniqueOk(d, r.email, r.kennitala)
    THEN Out([d EXCEPT !.users = @ \cup {[id |-> d.nextUserId, email |-> r.email,
                                          password |-> hashPassword(r.password),
                                          role |-> r.role, kennitala |-> r.kennitala]},
                       !.nextUserId = @ + 1],
             Done(r, 200))
    ELSE Out(d, Done(r, 500))

registerUserStep(d, r) ==
    CASE r.pc = "findEmail" -> registerUserFindEmail(d, r)
      [] r.pc = "findKennitala" -> registerUserFindKennitala(d, r)
      [] r.pc = "create" -> registerUserCreate(d, r)

\* AuthService.validatePasswordStrength, on the passwords of the model: the
\* messages of the rules that `password` does not meet.
validatePasswordStrength(password) ==
    LET errors ==
          CASE password = "weak" ->
                 {"Password must be at least 8 characters long",
                  "Password must contain at least one uppercase letter",
                  "Password must contain at least one number",
                  "Password must contain at least one special character"}
            [] password = "Weakpass1" ->
                 {"Password must contain at least one special character"}
            [] OTHER -> {}
    IN  [isValid |-> errors = {}, errors |-> errors]

\* Payloads that reach AuthService.registerUser when it is called without the
\* route's request schema in front of it.
WeakPayloads ==
    { [email |-> "p@x.is", password |-> "weak", role |-> PROPERTY_OWNER,
       kennitala |-> NULL],
      [email |-> "n@x.is", password |-> "Weakpass1", role |-> HA_MANAGER,
       kennitala |-> "0202801234"] }

\* ------------------------------------------- UserService.updateUserProfile
\* A string of ten digits that is no date: day 99.
InvalidKennitala == "9901701234"
\* The characters of the kennitalas of the model.
chars(kennitala) ==
    CASE kennitala = "0101701234" -> <<"0", "1", "0", "1", "7", "0", "1", "2", "3", "4">>
      [] kennitala = "0202801234" -> <<"0", "2", "0", "2", "8", "0", "1", "2", "3", "4">>
      [] kennitala = "9901701234" -> <<"9", "9", "0", "1", "7", "0", "1", "2", "3", "4">>

\* \d
DigitChars == <<"0", "1", "2", "3", "4", "5", "6", "7", "8", "9">>
IsDigit(c) == \E i \in 1..10 : DigitChars[i] = c
\* parseInt(str, 10) of a string of digits
RECURSIVE parseInt(_)
parseInt(str) ==
    IF str = <<>> THEN 0
    ELSE 10 * parseInt(SubSeq(str, 1, Len(str) - 1))
            + (CHOOSE i \in 0..9 : DigitChars[i + 1] = str[Len(str)])

\* AuthService.validateKennitala, on the characters of its argument:
\* kennitala.replace(/\D/g, '') drops every character that is no digit; ten
\* digits must remain, the first two a day 1..31, the next two a month 1..12.
validateKennitala(kennitala) ==
    LET cleaned == SelectSeq(kennitala, IsDigit) IN
    IF Len(cleaned) # 10 THEN FALSE
    ELSE LET day == parseInt(SubSeq(cleaned, 1, 2))
             month == parseInt(SubSeq(cleaned, 3, 4))
         IN  day >= 1 /\ day <= 31 /\ month >= 1 /\ month <= 12

\* updateData.kennitala is NULL when the profile update leaves it alone.
updateUserProfileStart(userId, kennitala) ==
    [op |-> "updateUserProfile", pc |-> IF kennitala # NULL THEN "findKennitala" ELSE "update",
     status |-> 0, userId |-> userId, kennitala |-> kennitala]

\* findFirst({kennitala, NOT: {id: userId}}): 'This kennitala is already in use
\* by another user' is a 409, 'Invalid kennitala format' a 400.
updateUserProfileFindKennitala(d, r) ==
    IF {u \in userByKennitala(d, r.kennitala) : u.id # r.userId} # {} THEN Out(d, Done(r, 409))
    ELSE IF ~validateKennitala(chars(r.kennitala)) THEN Out(d, Done(r, 400))
    ELSE Out(d, Goto(r, "update"))

\* prisma.user.update({where: {id: userId}, data}): fails when the row is gone,
\* or on the unique index; null values are filtered out of `data`.
updateUserProfileUpdate(d, r) ==
    IF userById(d, r.userId) = {} \/ ~KennitalaUniqueOk(d, r.kennitala, r.userId)
    THEN Out(d, Done(r, 500))
    ELSE Out([d EXCEPT !.users =
                 {IF u.id = r.userId /\ r.kennitala # NULL
                  THEN [u EXCEPT !.kennitala = r.kennitala] ELSE u : u \in @}],
             Done(r, 200))

updateUserProfileStep(d, r) ==
    CASE r.pc = "findKennitala" -> updateUserProfileFindKennitala(d, r)
      [] r.pc = "update" -> updateUserProfileUpdate(d, r)

\* ------------------------------------------- UserService.changePassword
NewPassword == "N3w!passw0rd"
\* The passwords a caller of changePassword gives: one of a registration
\* payload, a new one, and one the policy refuses.
ChangePasswords == {"Str0ng!pw-m", NewPassword, "weak"}

changePasswordStart(userId, currentPassword, newPassword) ==
    [op |-> "changePassword", pc |-> "findUnique", status |-> 0, userId |-> userId,
     currentPassword |-> currentPassword, newPassword |-> newPassword]

\* (mutant) the current password is not compared
changePasswordNoCompare(d, r) ==
    IF userById(d, r.userId) = {} THEN Out(d, Done(r, 500))
    ELSE IF ~validatePasswordStrength(r.newPassword).isValid THEN Out(d, Done(r, 400))
    ELSE Out(d, Goto(r, "update"))

\* findUnique({id}), then comparePassword with the row's hash, then the policy:
\* 'User not found' (the controller answers 500), 'Current password is
\* incorrect' and 'Password validation failed' (400).
changePasswordFindUnique(d, r) ==
    LET user == userById(d, r.userId) IN
    IF user = {} THEN Out(d, Done(r, 500))
    ELSE IF \E u \in user : ~comparePassword(r.currentPassword, u.password)
    THEN Out(d, Done(r, 400))
    ELSE IF ~validatePasswordStrength(r.newPassword).isValid THEN Out(d, Done(r, 400))
    ELSE Out(d, Goto(r, "update"))

\* prisma.user.update({where: {id}, data: {password}}): fails when the row is gone.
changePasswordUpdate(d, r) ==
    IF userById(d, r.userId) = {} THEN Out(d, Done(r, 500))
    ELSE Out([d EXCEPT !.users =
                 {IF u.id = r.userId
                  THEN [u EXCEPT !.password = hashPassword(r.newPassword)] ELSE u : u \in @}],
             Done(r, 200))

changePasswordStep(d, r) ==
    CASE r.pc = "findUnique" -> changePasswordFindUnique(d, r)
      [] r.pc = "update" -> changePasswordUpdate(d, r)

\* ------------------------------------------- UserService.deleteUser
deleteUserStart(userId) ==
    [op |-> "deleteUser", pc |-> "findUser", status |-> 0, userId |-> userId]

deleteUserFindUser(d, r) ==
    IF userById(d, r.userId) = {} THEN Out(d, Done(r, 404))
    ELSE Out(d, Goto(r, "countManaged"))

\* 'Cannot delete user who is managing house associations' is a 400.
deleteUserCountManaged(d, r) ==
    IF managedHAs(d, r.userId) # {} THEN Out(d, Done(r, 400))
    ELSE Out(d, Goto(r, "delete"))

\* prisma.user.delete: fails when the row is gone, or when a row of another
\* table still references it (ON DELETE RESTRICT).
deleteUserDelete(d, r) ==
    IF userById(d, r.userId) # {} /\ UserDeleteRestrictOk(d, r.userId)
    THEN Out([d EXCEPT !.users = @ \ userById(d, r.userId)], Done(r, 200))
    ELSE Out(d, Done(r, 500))

deleteUserStep(d, r) ==
    CASE r.pc = "findUser" -> deleteUserFindUser(d, r)
      [] r.pc = "countManaged" -> deleteUserCountManaged(d, r)
      [] r.pc = "delete" -> deleteUserDelete(d, r)

\* ------------------------------------------- HAService.createHA
createHAStart(managerId, registrationNum) ==
    [op |-> "createHA", pc |-> "validateHACreation", status |-> 0,
     managerId |-> managerId, registrationNum |-> registrationNum]

\* (mutant) the role of the manager is not checked
validateHACreationAnyRole(d, r) ==
    IF userById(d, r.managerId) = {} THEN Out(d, Done(r, 404))
    ELSE Out(d, Goto(r, "validateRegistrationNumber"))

validateHACreation(d, r) ==
    LET manager == userById(d, r.managerId) IN
    IF manager = {} THEN Out(d, Done(r, 404))
    ELSE IF \E m \in manager : m.role # HA_MANAGER THEN Out(d, Done(r, 403))
    ELSE Out(d, Goto(r, "validateRegistrationNumber"))

\* validateRegistrationNumber(registrationNum, excludeHAId), then `next`
validateRegistrationNumber(d, r, excludeHAId, next) ==
    IF haByRegistrationNum(d, r.registrationNum, excludeHAId) # {}
    THEN Out(d, Done(r, 409))
    ELSE Out(d, Goto(r, next))

\* prisma.houseAssociation.create; a store error is rethrown as a 500.
createHACreate(d, r) ==
    IF RegistrationNumUniqueOk(d, r.registrationNum, 0) /\ ManagerForeignKeyOk(d, r.managerId)
    THEN Out([d EXCEPT !.has = @ \cup {[id |-> d.nextHaId,
                                        registrationNum |-> r.registrationNum,
                                        managerId |-> r.managerId]},
                       !.nextHaId = @ + 1],
             Done(r, 200))
    ELSE Out(d, Done(r, 500))

createHAStep(d, r) ==
    CASE r.pc = "validateHACreation" -> validateHACreation(d, r)
      [] r.pc = "validateRegistrationNumber" -> validateRegistrationNumber(d, r, 0, "create")
      [] r.pc = "create" -> createHACreate(d, r)

\* ------------------------------------------- HAService.updateHA
\* registrationNum = NULL: the update names other fields only.
updateHAStart(haId, registrationNum, userId) ==
    [op |-> "updateHA", pc |-> "validateManagerAccess", status |-> 0,
     haId |-> haId, registrationNum |-> registrationNum, userId |-> userId]

\* (mutant) the requester is not compared with the manager
validateManagerAccessAnyUser(d, r, next) ==
    IF haById(d, r.haId) = {} THEN Out(d, Done(r, 404))
    ELSE Out(d, Goto(r, next))

\* validateManagerAccess and validateManagerAccessForDelete, then `next`
validateManagerAccess(d, r, next) ==
    LET houseAssociation == haById(d, r.haId) IN
    IF houseAssociation = {} THEN Out(d, Done(r, 404))
    ELSE IF \E h \in houseAssociation : h.managerId # r.userId THEN Out(d, Done(r, 403))
    ELSE Out(d, Goto(r, next))

\* The request body of PUT /ha/:id as a client sends it: registrationNum, or
\* NULL when it names other fields only, and a managerId key, 0 when it has
\* none.
UpdateHABodies ==
    [registrationNum : RegistrationNums \cup {NULL}, managerId : UserIds \cup {0}]

\* (mutant) a schema that lets unknown keys through
updateHASchemaPassthrough(body) == body

\* updateHASchema.shape.body.parse(body): a z.object keeps the keys of its
\* shape (name, address, registrationNum) and drops every other key.
updateHASchema(body) == [registrationNum |-> body.registrationNum, managerId |-> 0]

\* validateRequest({params, body}): req.body is replaced by the parsed body.
validateRequest(body) == updateHASchema(body)

\* The controller: HAService.updateHA(id, req.body, req.user.id).
updateHAStartData(haId, data, userId) ==
    updateHAStart(haId, data.registrationNum, userId) @@ [managerId |-> data.managerId]

\* prisma.houseAssociation.update with the fields that are set:
\* filterUpdateData drops the undefined ones and keeps every other key.
updateHAUpdate(d, r) ==
    LET managerId == Arg(r, "managerId") IN
    IF haById(d, r.haId) = {} THEN Out(d, Done(r, 500))
    ELSE IF r.registrationNum # NULL /\ ~RegistrationNumUniqueOk(d, r.registrationNum, r.haId)
    THEN Out(d, Done(r, 500))
    ELSE IF managerId # 0 /\ ~ManagerForeignKeyOk(d, managerId) THEN Out(d, Done(r, 500))
    ELSE Out([d EXCEPT !.has =
                 {IF h.id = r.haId
                  THEN [h EXCEPT !.registrationNum = IF r.registrationNum # NULL
                                                     THEN r.registrationNum ELSE @,
                                 !.managerId = IF managerId # 0 THEN managerId ELSE @]
                  ELSE h : h \in @}],
             Done(r, 200))

updateHAStep(d, r) ==
    CASE r.pc = "validateManagerAccess" ->
            validateManagerAccess(d, r, IF r.registrationNum # NULL
                                        THEN "validateRegistrationNumber" ELSE "update")
      [] r.pc = "validateRegistrationNumber" ->
            validateRegistrationNumber(d, r, r.haId, "update")
      [] r.pc = "update" -> updateHAUpdate(d, r)

\* ------------------------------------------- HAService.deleteHA
deleteHAStart(haId, userId) ==
    [op |-> "deleteHA", pc |-> "validateManagerAccessForDelete", status |-> 0,
     haId |-> haId, userId |-> userId, deleted |-> {}]

\* (mutant) no foreign key on "ha_memberships"("haId")
HADeleteRestrictOkNoKey(d, haId, deleted) == TRUE
\* ON DELETE RESTRICT on ha_memberships_haId_fkey, seen from inside the
\* transaction that has deleted the rows of the users in `deleted`.
HADeleteRestrictOk(d, haId, deleted) ==
    \A u \in UserIds : membershipCount(d, u, haId) >= 1 => u \in deleted

\* prisma.$transaction, first statement: tx.hAMembership.deleteMany({haId}).
\* The rows are deleted inside the transaction, and locked; nothing is visible
\* to other clients before the commit.
deleteHADeleteMany(d, r) ==
    Out(d, [r EXCEPT !.pc = "transaction",
                     !.deleted = {u \in UserIds : membershipCount(d, u, r.haId) >= 1}])

\* tx.houseAssociation.delete and the commit: the rows deleted in the
\* transaction and the HA go together; when the HA is gone, or a membership
\* row added since deleteMany still references it, the transaction is rolled
\* back and nothing is deleted.
deleteHATransaction(d, r) ==
    IF haById(d, r.haId) = {} \/ ~HADeleteRestrictOk(d, r.haId, r.deleted)
    THEN Out(d, Done(r, 500))
    ELSE Out([d EXCEPT !.memberships = [p \in DOMAIN @ |->
                                          IF p[2] = r.haId /\ p[1] \in r.deleted
                                          THEN 0 ELSE @[p]],
                       !.has = @ \ haById(d, r.haId)],
             Done(r, 200))

deleteHAStep(d, r) ==
    CASE r.pc = "validateManagerAccessForDelete" -> validateManagerAccess(d, r, "deleteMany")
      [] r.pc = "deleteMany" -> deleteHADeleteMany(d, r)
      [] r.pc = "transaction" -> deleteHATransaction(d, r)

\* ------------------------------------------- HAMemberService.addMember
addMemberStart(haId, kennitala, managerId) ==
    [op |-> "addMember", pc |-> "findHA", status |-> 0,
     haId |-> haId, kennitala |-> kennitala, userId |-> managerId, user |-> 0]

\* findUnique({kennitala}); the row found is kept in the local `user`.
addMemberFindUser(d, r) ==
    LET user == userByKennitala(d, r.kennitala) IN
    IF user = {} THEN Out(d, Done(r, 404))
    ELSE Out(d, [r EXCEPT !.pc = "findMembership", !.user = (CHOOSE u \in user : TRUE).id])

\* (mutant) the pre-check finds nothing
addMemberNoPreCheck(d, r) == Out(d, Goto(r, "create"))

\* findUnique({userId_haId}): the existence pre-check.
addMemberFindMembership(d, r) ==
    IF membershipCount(d, r.user, r.haId) > 0 THEN Out(d, Done(r, 409))
    ELSE Out(d, Goto(r, "create"))

\* prisma.hAMembership.create; an error that is no ApiError is rethrown as a 500.
addMemberCreate(d, r) ==
    IF MembershipUniqueOk(d, r.user, r.haId) /\ MembershipForeignKeysOk(d, r.user, r.haId)
    THEN Out([d EXCEPT !.memberships[<<r.user, r.haId>>] = @ + 1], Done(r, 200))
    ELSE Out(d, Done(r, 500))

addMemberStep(d, r) ==
    CASE r.pc = "findHA" -> validateManagerAccess(d, r, "findUser")
      [] r.pc = "findUser" -> addMemberFindUser(d, r)
      [] r.pc = "findMembership" -> addMemberFindMembership(d, r)
      [] r.pc = "create" -> addMemberCreate(d, r)

\* ------------------------------------------- HAMemberService.removeMember
\* `user` is the member to remove, `userId` the requester.
removeMemberStart(haId, user, managerId) ==
    [op |-> "removeMember", pc |-> "findHA", status |-> 0,
     haId |-> haId, user |-> user, userId |-> managerId]

removeMemberFindMembership(d, r) ==
    IF membershipCount(d, r.user, r.haId) = 0 THEN Out(d, Done(r, 404))
    ELSE Out(d, Goto(r, "delete"))

\* prisma.hAMembership.delete: fails (P2025, rethrown as a 500) when no row is left.
removeMemberDelete(d, r) ==
    IF membershipCount(d, r.user, r.haId) = 0 THEN Out(d, Done(r, 500))
    ELSE Out([d EXCEPT !.memberships[<<r.user, r.haId>>] = @ - 1], Done(r, 200))

removeMemberStep(d, r) ==
    CASE r.pc = "findHA" -> validateManagerAccess(d, r, "findMembership")
      [] r.pc = "findMembership" -> removeMemberFindMembership(d, r)
      [] r.pc = "delete" -> removeMemberDelete(d, r)

\* ------------------------------------------- HAValidationService.checkHAAccess
\* (mutant) a membership counts whatever the role
checkHAAccessAnyRole(d, haId, userId, userRole, storeOk) ==
    /\ storeOk
    /\ \E h \in haById(d, haId) : h.managerId = userId \/ membershipCount(d, userId, haId) > 0

\* (mutant) the manager is treated like any other user
checkHAAccessNoManager(d, haId, userId, userRole, storeOk) ==
    /\ storeOk
    /\ haById(d, haId) # {}
    /\ userRole = PROPERTY_OWNER
    /\ membershipCount(d, userId, haId) > 0

\* One findUnique with the members of `userId` included; storeOk = FALSE: the
\* store call throws, and the catch block answers false.
checkHAAccess(d, haId, userId, userRole, storeOk) ==
    IF ~storeOk THEN FALSE
    ELSE LET houseAssociation == haById(d, haId) IN
         IF houseAssociation = {} THEN FALSE
         ELSE IF \E h \in houseAssociation : h.managerId = userId THEN TRUE
         ELSE IF userRole = PROPERTY_OWNER THEN membershipCount(d, userId, haId) > 0
         ELSE FALSE

checkHAAccessStart(haId, userId, userRole, storeOk) ==
    [op |-> "checkHAAccess", pc |-> "findHA", status |-> 0,
     haId |-> haId, userId |-> userId, userRole |-> userRole, storeOk |-> storeOk]

\* The call returns its boolean: the caller keeps the arguments and the answer.
checkHAAccessStep(d, r) ==
    Out(d, [r EXCEPT !.pc = "done", !.status = 200] @@
           [value |-> checkHAAccess(d, r.haId, r.userId, r.userRole, r.storeOk)])

\* ------------------------------------------- HAService.getHAById
\* The store calls of this section succeed; a store call that throws is
\* `catch` below.
\* ------------------------------------------- HAService.listHAs
\* ListHAOptions without page, limit and search: userId and userRole are
\* optional, {} when absent.
ListHAOptions ==
    {[userId |-> {}, userRole |-> {}]}
        \cup {[userId |-> {u}, userRole |-> {role}] : u \in UserIds, role \in UserRole}

\* (mutant) no role-based filtering
buildHAWhereClauseNoFilter(options) == [managerId |-> {}, members |-> {}]

\* HATransformerService.buildHAWhereClause: a condition is {} when the where
\* clause has no such key.
buildHAWhereClause(options) ==
    IF options.userRole = {HA_MANAGER} /\ options.userId # {}
    THEN [managerId |-> options.userId, members |-> {}]
    ELSE IF options.userRole = {PROPERTY_OWNER} /\ options.userId # {}
    THEN [managerId |-> {}, members |-> options.userId]
    ELSE [managerId |-> {}, members |-> {}]

\* prisma.houseAssociation.findMany({where}): managerId equal, and some
\* membership row of the user.
findManyHA(d, whereClause) ==
    {h \in d.has :
        /\ \A m \in whereClause.managerId : h.managerId = m
        /\ \A u \in whereClause.members : membershipCount(d, u, h.id) >= 1}

\* listHAs: one await; any exception is answered with ApiError(500).
listHAsRun(d, options, storeOk) ==
    LET r == [op |-> "listHAs", pc |-> "done", status |-> 0, haId |-> 0, userId |-> 0]
    IN  IF ~storeOk THEN Done(r, 500) @@ [options |-> options]
        ELSE Done(r, 200) @@ [options |-> options,
                              value |-> findManyHA(d, buildHAWhereClause(options))]

\* What the caller of getHAById and listMembers knows when the call is over:
\* the arguments and the outcome.
Answer(r, status) == Done(r, status) @@ [userRole |-> r.userRole]

getHAByIdStart(haId, userId, userRole) ==
    [op |-> "getHAById", pc |-> "findHA", status |-> 0,
     haId |-> haId, userId |-> userId, userRole |-> userRole]

\* (mutant) the access check of getHAById and listMembers answers true
hasAccessAlways(d, r) == TRUE
\* const hasAccess = await checkHAAccess(haId, userId, userRole)
hasAccess(d, r) == checkHAAccess(d, r.haId, r.userId, r.userRole, TRUE)

\* validateHAAccessForUser: findUnique, 404 when there is no row; then
\* checkHAAccess, 403 when it answers false.
validateHAAccessForUser(d, r, next) ==
    IF r.pc = "findHA"
    THEN IF haById(d, r.haId) = {} THEN Out(d, Answer(r, 404))
         ELSE Out(d, Goto(r, "checkHAAccess"))
    ELSE IF ~hasAccess(d, r) THEN Out(d, Answer(r, 403))
         ELSE Out(d, Goto(r, next))

\* findUnique with the include clause: the row is the answer; 404 when it is
\* gone since the check.
getHAByIdFindUnique(d, r) ==
    IF haById(d, r.haId) = {} THEN Out(d, Answer(r, 404))
    ELSE Out(d, Answer(r, 200) @@ [value |-> haById(d, r.haId)])

getHAByIdStep(d, r) ==
    CASE r.pc \in {"findHA", "checkHAAccess"} -> validateHAAccessForUser(d, r, "findUnique")
      [] r.pc = "findUnique" -> getHAByIdFindUnique(d, r)

\* ------------------------------------------- HAMemberService.listMembers
listMembersStart(haId, userId, userRole) ==
    [op |-> "listMembers", pc |-> "checkHAAccess", status |-> 0,
     haId |-> haId, userId |-> userId, userRole |-> userRole]

listMembersCheckHAAccess(d, r) ==
    IF ~hasAccess(d, r) THEN Out(d, Answer(r, 403))
    ELSE Out(d, Goto(r, "findMany"))

\* hAMembership.findMany({haId}) and count: the users of the rows are the answer.
listMembersFindMany(d, r) ==
    Out(d, Answer(r, 200) @@ [value |-> {u \in UserIds : membershipCount(d, u, r.haId) >= 1}])

listMembersStep(d, r) ==
    CASE r.pc = "checkHAAccess" -> listMembersCheckHAAccess(d, r)
      [] r.pc = "findMany" -> listMembersFindMany(d, r)

\* ------------------------------------------- the services' catch blocks
\* The store call that the call `r` is about to make throws an error that is
\* no ApiError. Inside checkHAAccess the catch block answers false, and
\* getHAById and listMembers go on to throw ApiError(403); everywhere else the
\* error reaches the catch block of the service function, which throws
\* ApiError(500). An open transaction is rolled back. (`thrown` marks the
\* outcome of a call whose store call threw.)
Reads == {"getHAById", "listMembers"}

\* (mutant) no try / catch in the service functions: the store's error reaches
\* the caller as it is, with no status
catchNothing(r) == Done(r, 0) @@ [thrown |-> TRUE]

catch(r) ==
    (IF r.op \in Reads
     THEN Answer(r, IF r.pc = "checkHAAccess" THEN 403 ELSE 500)
     ELSE Done(r, 500)) @@ [thrown |-> TRUE]

\* ------------------------------------------------------------ scheduling
Step(d, r) ==
    CASE r.op = "registerUser" -> registerUserStep(d, r)
      [] r.op = "deleteUser" -> deleteUserStep(d, r)
      [] r.op = "updateUserProfile" -> updateUserProfileStep(d, r)
      [] r.op = "changePassword" -> changePasswordStep(d, r)
      [] r.op = "createHA" -> createHAStep(d, r)
      [] r.op = "updateHA" -> updateHAStep(d, r)
      [] r.op = "deleteHA" -> deleteHAStep(d, r)
      [] r.op = "addMember" -> addMemberStep(d, r)
      [] r.op = "removeMember" -> removeMemberStep(d, r)
      [] r.op = "checkHAAccess" -> checkHAAccessStep(d, r)
      [] r.op = "getHAById" -> getHAByIdStep(d, r)
      [] r.op = "listMembers" -> listMembersStep(d, r)

\* The model creates at most MaxUsers users and MaxHAs house associations: a
\* create beyond that does not take place.
Blocked(d, r) ==
    \/ r.op = "registerUser" /\ r.pc = "create" /\ d.nextUserId > MaxUsers
    \/ r.op = "createHA" /\ r.pc = "create" /\ d.nextHaId > MaxHAs

\* A call from its current position to its end, with no other call in between.
\* (The singleton sets bind each step's result once it is computed.)
RECURSIVE Run(_, _)
Run(d, r) ==
    IF r.pc = "done" \/ Blocked(d, r) THEN Out(d, r)
    ELSE CHOOSE end \in {Run(o.db, o.r) : o \in {Step(d, r)}} : TRUE

\* The next store call of the observed call `r`.
Advance(r) ==
    /\ ~Blocked(db, r)
    /\ \E o \in {Step(db, r)} : db' = o.db /\ call' = o.r
    /\ UNCHANGED authVars

InFlight == call.pc \notin {"idle", "done"}
Continue(op) == call.op = op /\ InFlight /\ Advance(call)

\* The caller has its answer; the next call can be observed.
return == call.pc = "done" /\ call' = Idle /\ UNCHANGED <<db, authVars>>

registerUser ==
    \/ \E p \in RegisterPayloads : Free /\ Advance(registerUserStart(p))
    \/ Continue("registerUser")

\* AuthService.registerUser called with any payload.
registerUserAny ==
    \/ \E p \in RegisterPayloads \cup WeakPayloads : Free /\ Advance(registerUserStart(p))
    \/ Continue("registerUser")

updateUserProfile ==
    \/ \E userId \in UserIds, kennitala \in Kennitalas \cup {InvalidKennitala, NULL} :
          Free /\ Advance(updateUserProfileStart(userId, kennitala))
    \/ Continue("updateUserProfile")

changePassword ==
    \/ \E userId \in UserIds, currentPassword, newPassword \in ChangePasswords :
          Free /\ Advance(changePasswordStart(userId, currentPassword, newPassword))
    \/ Continue("changePassword")

deleteUser ==
    \/ \E userId \in UserIds : Free /\ Advance(deleteUserStart(userId))
    \/ Continue("deleteUser")

createHA ==
    \/ \E managerId \in UserIds, reg \in RegistrationNums :
          Free /\ Advance(createHAStart(managerId, reg))
    \/ Continue("createHA")

updateHA ==
    \/ \E haId \in HaIds, reg \in RegistrationNums \cup {NULL}, userId \in UserIds :
          Free /\ Advance(updateHAStart(haId, reg, userId))
    \/ Continue("updateHA")

deleteHA ==
    \/ \E haId \in HaIds, userId \in UserIds : Free /\ Advance(deleteHAStart(haId, userId))
    \/ Continue("deleteHA")

addMember ==
    \/ \E haId \in HaIds, kennitala \in Kennitalas, managerId \in UserIds :
          Free /\ Advance(addMemberStart(haId, kennitala, managerId))
    \/ Continue("addMember")

removeMember ==
    \/ \E haId \in HaIds, user \in UserIds, managerId \in UserIds :
          Free /\ Advance(removeMemberStart(haId, user, managerId))
    \/ Continue("removeMember")

checkAccess ==
    \E haId \in HaIds, userId \in UserIds, userRole \in UserRole, storeOk \in BOOLEAN :
        Free /\ Advance(checkHAAccessStart(haId, userId, userRole, storeOk))

\* The calls of other clients that can change the store: a call that names a
\* user or a house association that does not exist ends at its first lookup.
Calls ==
    LET U == {u.id : u \in db.users}
        H == {h.id : h \in db.has}
    IN  {registerUserStart(p) : p \in RegisterPayloads}
        \cup {deleteUserStart(u) : u \in U}
        \cup {createHAStart(m, reg) : m \in U, reg \in RegistrationNums}
        \cup {updateHAStart(h, reg, u) : h \in H, reg \in RegistrationNums, u \in U}
        \cup {deleteHAStart(h, u) : h \in H, u \in U}
        \cup {addMemberStart(h, k, m) : h \in H, k \in Kennitalas, m \in U}
        \cup {removeMemberStart(h, u, m) : h \in H, u \in U, m \in U}

\* The membership rows the observed call has locked: those its open
\* transaction has deleted. A call that writes one of them waits for the
\* transaction to end.
Locks(r) ==
    IF r.op = "deleteHA" /\ r.pc = "transaction" THEN {<<u, r.haId>> : u \in r.deleted}
    ELSE {}

\* A whole call of another client, between two store calls of the observed one.
concurrentCall ==
    /\ InFlight
    /\ \E r \in Calls : \E o \in {Run(db, r)} :
        /\ o.r.pc = "done"
        /\ o.db # db
        /\ \A p \in Locks(call) : o.db.memberships[p] = db.memberships[p]
        /\ db' = o.db
        /\ UNCHANGED <<call, authVars>>

\* The calls of other clients that write the users table.
UserCalls ==
    LET U == {u.id : u \in db.users}
    IN  {registerUserStart(p) : p \in RegisterPayloads \cup WeakPayloads}
        \cup {updateUserProfileStart(u, k) : u \in U, k \in Kennitalas}
        \cup {changePasswordStart(u, c, n) : u \in U, c, n \in ChangePasswords \ {"weak"}}
        \cup {deleteUserStart(u) : u \in U}

concurrentUserCall ==
    /\ InFlight
    /\ \E r \in UserCalls : \E o \in {Run(db, r)} :
        /\ o.r.pc = "done"
        /\ o.db # db
        /\ db' = o.db
        /\ UNCHANGED <<call, authVars>>

Next ==
    \/ registerUser
    \/ deleteUser
    \/ createHA
    \/ updateHA
    \/ deleteHA
    \/ addMember
    \/ removeMember
    \/ checkAccess
    \/ return
    \/ concurrentCall

Spec == Init /\ [][Next]_vars

\* The users table on its own: registration, profile update and deletion called
\* as service functions, with no house association in the store.
NextUsers ==
    \/ registerUserAny
    \/ updateUserProfile
    \/ changePassword
    \/ deleteUser
    \/ return
    \/ concurrentUserCall

SpecUsers == Init /\ [][NextUsers]_vars

getHAById ==
    \/ \E haId \in HaIds, userId \in UserIds, userRole \in UserRole :
          Free /\ Advance(getHAByIdStart(haId, userId, userRole))
    \/ Continue("getHAById")

listMembers ==
    \/ \E haId \in HaIds, userId \in UserIds, userRole \in UserRole :
          Free /\ Advance(listMembersStart(haId, userId, userRole))
    \/ Continue("listMembers")

listHAs ==
    /\ Free
    /\ \E options \in ListHAOptions, storeOk \in BOOLEAN :
          call' = listHAsRun(db, options, storeOk)
    /\ UNCHANGED <<db, authVars>>

\* The calls of the HA and member services as a client starts them.
HAStarts ==
    {createHAStart(m, reg) : m \in UserIds, reg \in RegistrationNums}
        \cup {getHAByIdStart(h, u, role) : h \in HaIds, u \in UserIds, role \in UserRole}
        \cup {updateHAStart(h, reg, u) : h \in HaIds, reg \in RegistrationNums, u \in UserIds}
        \cup {deleteHAStart(h, u) : h \in HaIds, u \in UserIds}
        \cup {addMemberStart(h, k, m) : h \in HaIds, k \in Kennitalas, m \in UserIds}
        \cup {removeMemberStart(h, u, m) : h \in HaIds, u \in UserIds, m \in UserIds}
        \cup {listMembersStart(h, u, role) : h \in HaIds, u \in UserIds, role \in UserRole}

\* The next store call of an HA or member service call throws: its first one,
\* or the next one of the call in flight.
storeException ==
    /\ \/ Free /\ \E r \in HAStarts : call' = catch(r)
       \/ InFlight /\ call.op \in {r.op : r \in HAStarts} /\ call' = catch(call)
    /\ UNCHANGED <<db, authVars>>

\* The HA and member services at their boundary: every call of theirs observed
\* store call by store call, each of which may throw, with other clients' calls
\* in between.
NextHA ==
    \/ registerUser
    \/ createHA
    \/ getHAById
    \/ updateHA
    \/ deleteHA
    \/ addMember
    \/ removeMember
    \/ listMembers
    \/ listHAs
    \/ storeException
    \/ return
    \/ concurrentCall

SpecHA == Init /\ [][NextHA]_vars

\* ------------------------------------------- validateKennitala alone
\* The inputs: a day 00, 01, 31 or 32, a month 00, 01, 12 or 13, the year 70
\* and three, four or five more digits; written plainly, with a hyphen after
\* the sixth digit, with a hyphen after the second, with a letter in the
\* place of the seventh digit, and with a letter at the end.
KennitalaInputs ==
    LET days == {<<"0", "0">>, <<"0", "1">>, <<"3", "1">>, <<"3", "2">>}
        months == {<<"0", "0">>, <<"0", "1">>, <<"1", "2">>, <<"1", "3">>}
        tails == {<<"1", "2", "3">>, <<"1", "2", "3", "4">>, <<"1", "2", "3", "4", "5">>}
        year == <<"7", "0">>
    IN  UNION {{dd \o mm \o year \o tail,
                dd \o mm \o year \o <<"-">> \o tail,
                dd \o <<"-">> \o mm \o year \o tail,
                dd \o mm \o year \o <<"a">> \o Tail(tail),
                dd \o mm \o year \o tail \o <<"a">>}
               : dd \in days, mm \in months, tail \in tails}

validateKennitalaCall ==
    /\ Free
    /\ \E kennitala \in KennitalaInputs :
          call' = [op |-> "validateKennitala", pc |-> "done", status |-> 200,
                   kennitala |-> kennitala, value |-> validateKennitala(kennitala)]
    /\ UNCHANGED <<db, authVars>>

NextKennitala ==
    \/ validateKennitalaCall
    \/ return

SpecKennitala == Init /\ [][NextKennitala]_vars

\* ====================================================================
\* Tokens and request guards
\* ====================================================================
MaxTokens == 4       \* tokens ever issued

ACCESS_TOKEN_EXPIRY == 900          \* '15m', in seconds
REFRESH_TOKEN_EXPIRY == 604800      \* '7d', in seconds
ISSUER == "ha-management-api"
AUDIENCE == "ha-management-client"

\* The environment passed validateEnv: JWT_SECRET is set; JWT_REFRESH_SECRET is
\* absent, equal to JWT_SECRET, or another key.
Envs ==
    { [JWT_SECRET |-> SecretA, JWT_REFRESH_SECRET |-> k] : k \in {NULL, SecretA, SecretB} }

\* A key shorter than 32 characters.
ShortKey == "short-secret"
\* secret.length, for the keys of the model
length(secret) ==
    CASE secret = SecretA -> 34
      [] secret = SecretB -> 34
      [] secret = ShortKey -> 12

\* process.env as the operator may set it before the server starts: each key
\* absent, shorter than 32 characters, or of 32 characters and more.
ProcessEnvs ==
    [JWT_SECRET : {NULL, ShortKey, SecretA},
     JWT_REFRESH_SECRET : {NULL, ShortKey, SecretA, SecretB}]

\* (mutant) z.string() without .min(32)
envSchemaNoMin(e) ==
    {"JWT_SECRET" : x \in {k \in {e.JWT_SECRET} : k = NULL}}

\* envSchema.parse(process.env): the paths of the ZodError's issues, none when
\* the environment is valid. JWT_SECRET: z.string().min(32);
\* JWT_REFRESH_SECRET: z.string().min(32).optional().
envSchema(e) ==
    {"JWT_SECRET" : x \in {k \in {e.JWT_SECRET} : k = NULL \/ length(k) < 32}}
        \cup {"JWT_REFRESH_SECRET" :
                 x \in {k \in {e.JWT_REFRESH_SECRET} : k # NULL /\ length(k) < 32}}

\* validateEnv(), run when app.ts imports config/env: process.exit(1) on a
\* ZodError, and the server goes on to listen otherwise.
validateEnv ==
    /\ proc = "starting"
    /\ proc' = IF envSchema(env) = {} THEN "running" ELSE "exited"
    /\ UNCHANGED <<db, call, env, now, issued, req>>

\* A string is a sequence of atoms: the space, a word without spaces, or a
\* compact JWT (which has no space in it).
SP == [ch |-> " "]
Word(w) == [ch |-> w]
IsJwt(a) == "key" \in DOMAIN a

\* jwt.sign(payload, secret, {expiresIn, issuer, audience}) at time t (HS256: the
\* same payload, times and key give the same string).
sign(payload, secret, expiresIn, t) ==
    [userId |-> payload.userId, email |-> payload.email, role |-> payload.role,
     iat |-> t \div 1000, exp |-> (t \div 1000) + expiresIn,
     iss |-> ISSUER, aud |-> AUDIENCE, key |-> secret]

Thrown(message) == [error |-> message, value |-> {}]
Returns(value) == [error |-> NULL, value |-> {value}]

\* `secret || fallback`
OrElse(secret, fallback) == IF secret # NULL THEN secret ELSE fallback

generateAccessToken(payload, e, t) ==
    IF e.JWT_SECRET = NULL THEN Thrown("JWT_SECRET environment variable is required")
    ELSE Returns(sign(payload, e.JWT_SECRET, ACCESS_TOKEN_EXPIRY, t))

generateRefreshToken(payload, e, t) ==
    LET secret == OrElse(e.JWT_REFRESH_SECRET, e.JWT_SECRET) IN
    IF secret = NULL THEN Thrown("JWT_SECRET environment variable is required")
    ELSE Returns(sign(payload, secret, REFRESH_TOKEN_EXPIRY, t))

\* (mutant) a token is still accepted in the second of its expiry
jwtVerifyLateExpiry(token, secret, t) ==
    IF Len(token) # 1 \/ ~IsJwt(token[1]) THEN Thrown("JsonWebTokenError")
    ELSE IF token[1].key # secret THEN Thrown("JsonWebTokenError")
    ELSE IF t \div 1000 > token[1].exp THEN Thrown("TokenExpiredError")
    ELSE Returns(token[1])

\* jwt.verify(token, secret, {issuer, audience}) at time t: the string is a JWT,
\* the signature is the key's, the token is not expired, audience and issuer match.
jwtVerify(token, secret, t) ==
    IF Len(token) # 1 \/ ~IsJwt(token[1]) THEN Thrown("JsonWebTokenError")
    ELSE LET decoded == token[1] IN
         IF decoded.key # secret THEN Thrown("JsonWebTokenError")
         ELSE IF t \div 1000 >= decoded.exp THEN Thrown("TokenExpiredError")
         ELSE IF decoded.aud # AUDIENCE \/ decoded.iss # ISSUER THEN Thrown("JsonWebTokenError")
         ELSE Returns(decoded)

verifyToken(token, isRefreshToken, e, t) ==
    LET secret == IF isRefreshToken THEN OrElse(e.JWT_REFRESH_SECRET, e.JWT_SECRET)
                  ELSE e.JWT_SECRET
    IN  IF secret = NULL THEN Thrown("JWT_SECRET environment variable is required")
        ELSE LET v == jwtVerify(token, secret, t) IN
             IF v.error = NULL
             THEN Returns([userId |-> (CHOOSE x \in v.value : TRUE).userId,
                           email |-> (CHOOSE x \in v.value : TRUE).email,
                           role |-> (CHOOSE x \in v.value : TRUE).role])
             ELSE IF v.error = "TokenExpiredError" THEN Thrown("Token has expired")
             ELSE Thrown("Invalid token")

\* generateTokens(user): the pair, or the error of the first generator that throws.
generateTokens(user, e, t) ==
    LET payload == [userId |-> user.id, email |-> user.email, role |-> user.role]
        accessToken == generateAccessToken(payload, e, t)
        refreshToken == generateRefreshToken(payload, e, t)
    IN  IF accessToken.error # NULL THEN accessToken
        ELSE IF refreshToken.error # NULL THEN refreshToken
        ELSE Returns([accessToken |-> CHOOSE x \in accessToken.value : TRUE,
                      refreshToken |-> CHOOSE x \in refreshToken.value : TRUE])

getUserById(d, id) == userById(d, id)

\* (mutant) a refresh token is refused once an access token younger than it
\* was handed out for its user
refreshAccessTokenSingleUse(d, refreshToken, e, t) ==
    LET v == verifyToken(refreshToken, TRUE, e, t) IN
    IF v.error # NULL THEN Thrown("Invalid refresh token")
    ELSE IF \E i \in issued : /\ i.kind = "access"
                              /\ i.jwt.userId = refreshToken[1].userId
                              /\ i.jwt.iat > refreshToken[1].iat
         THEN Thrown("Invalid refresh token")
    ELSE IF userById(d, refreshToken[1].userId) = {} THEN Thrown("Invalid refresh token")
    ELSE generateAccessToken(CHOOSE x \in v.value : TRUE, e, t)

\* (mutant) the user named by the refresh token is not looked up
refreshAccessTokenNoLookup(d, refreshToken, e, t) ==
    LET v == verifyToken(refreshToken, TRUE, e, t) IN
    IF v.error # NULL THEN Thrown("Invalid refresh token")
    ELSE generateAccessToken(CHOOSE x \in v.value : TRUE, e, t)

\* refreshAccessToken(refreshToken): the new access token; every failure is
\* rethrown as 'Invalid refresh token'.
refreshAccessToken(d, refreshToken, e, t) ==
    LET v == verifyToken(refreshToken, TRUE, e, t) IN
    IF v.error # NULL THEN Thrown("Invalid refresh token")
    ELSE LET user == userById(d, (CHOOSE x \in v.value : TRUE).userId) IN
         IF user = {} THEN Thrown("Invalid refresh token")
         ELSE LET u == CHOOSE x \in user : TRUE
                  accessToken == generateAccessToken(
                      [userId |-> u.id, email |-> u.email, role |-> u.role], e, t)
              IN  IF accessToken.error # NULL THEN Thrown("Invalid refresh token")
                  ELSE accessToken

\* (mutant) the password is not compared
authenticateUserAnyPassword(d, email, password) == userByEmail(d, email)

\* authenticateUser(credentials): the user row, or null ({}).
authenticateUser(d, email, password) ==
    {u \in userByEmail(d, email) : comparePassword(password, u.password)}

\* ------------------------------------------- auth.middleware
\* authHeader.split(' ')
RECURSIVE split(_)
split(str) ==
    IF \A i \in 1..Len(str) : str[i] # SP THEN <<str>>
    ELSE LET i == CHOOSE j \in 1..Len(str) :
                      str[j] = SP /\ \A k \in 1..(j - 1) : str[k] # SP
         IN  <<SubSeq(str, 1, i - 1)>> \o split(SubSeq(str, i + 1, Len(str)))

\* extractToken(req): the token, or null (written <<>>, as the empty string is).
extractToken(authorization) ==
    IF authorization = <<>> THEN <<>>
    ELSE LET parts == split(authorization) IN
         IF Len(parts) # 2 \/ parts[1] # <<Word("Bearer")>> THEN <<>>
         ELSE parts[2]

\* What a middleware did: the exchange after it, and its calls of next().
Mw(x, next) == [x |-> x, next |-> next]
\* res.status(status).json(createErrorResponse(message, {code}))
Json(x, status, code) == [x EXCEPT !.status = status, !.code = code, !.sent = @ + 1]

\* (mutant) the user named by the token is not looked up
authenticateTokenNoLookup(d, e, t, x, storeOk) ==
    LET token == extractToken(x.authorization)
        v == verifyToken(token, FALSE, e, t)
    IN  IF token = <<>> THEN Mw(Json(x, 401, "AUTH_TOKEN_MISSING"), 0)
        ELSE IF v.error # NULL THEN Mw(Json(x, 401, "AUTH_TOKEN_INVALID"), 0)
        ELSE Mw([x EXCEPT !.tokenPayload = v.value, !.lookup = "found",
                          !.user = {[id |-> p.userId, email |-> p.email, role |-> p.role,
                                     password |-> hashPassword(""), kennitala |-> NULL]
                                    : p \in v.value}], 1)

\* authenticateToken (requireAuth); storeOk = FALSE: getUserById rejects, and the
\* outer catch answers 500.
authenticateToken(d, e, t, x, storeOk) ==
    LET token == extractToken(x.authorization) IN
    IF token = <<>> THEN Mw(Json(x, 401, "AUTH_TOKEN_MISSING"), 0)
    ELSE LET v == verifyToken(token, FALSE, e, t) IN
         IF v.error # NULL THEN Mw(Json(x, 401, "AUTH_TOKEN_INVALID"), 0)
         ELSE IF ~storeOk
              THEN Mw(Json([x EXCEPT !.lookup = "failed"], 500, "AUTH_INTERNAL_ERROR"), 0)
         ELSE LET user == getUserById(d, (CHOOSE p \in v.value : TRUE).userId) IN
              IF user = {}
              THEN Mw(Json([x EXCEPT !.lookup = "missing"], 401, "AUTH_USER_NOT_FOUND"), 0)
              ELSE Mw([x EXCEPT !.lookup = "found", !.user = user,
                                !.tokenPayload = v.value], 1)

\* (mutant) optionalAuth as strict as requireAuth
optionalAuthStrict(d, e, t, x, storeOk) == authenticateToken(d, e, t, x, storeOk)

\* optionalAuth; storeOk = FALSE: getUserById rejects, and the inner catch
\* warns.  Every path ends in the one next() that follows.
optionalAuth(d, e, t, x, storeOk) ==
    LET token == extractToken(x.authorization) IN
    IF token = <<>> THEN Mw(x, 1)
    ELSE LET v == verifyToken(token, FALSE, e, t) IN
         IF v.error # NULL THEN Mw(x, 1)
         ELSE IF ~storeOk THEN Mw([x EXCEPT !.lookup = "failed"], 1)
         ELSE LET user == getUserById(d, (CHOOSE p \in v.value : TRUE).userId) IN
              IF user = {} THEN Mw([x EXCEPT !.lookup = "missing"], 1)
              ELSE Mw([x EXCEPT !.lookup = "found", !.user = user,
                                !.tokenPayload = v.value], 1)

\* requireSameUser(userIdParam): req.params[userIdParam] is x.target, 0 when the
\* route has no such parameter.
requireSameUser(x) ==
    IF x.user = {} THEN Mw(Json(x, 401, "AUTH_REQUIRED"), 0)
    ELSE IF x.target = 0 THEN Mw(Json(x, 400, "VALIDATION_ERROR"), 0)
    ELSE IF \E u \in x.user : u.id # x.target /\ u.role # HA_MANAGER
         THEN Mw(Json(x, 403, "AUTH_FORBIDDEN"), 0)
    ELSE Mw(x, 1)

\* (mutant) any authenticated user passes
requireRoleAnyRole(allowedRoles, x) ==
    IF x.user = {} THEN Mw(Json(x, 401, "AUTH_REQUIRED"), 0) ELSE Mw(x, 1)

\* requireRole(...allowedRoles)
requireRole(allowedRoles, x) ==
    IF x.user = {} THEN Mw(Json(x, 401, "AUTH_REQUIRED"), 0)
    ELSE IF \E u \in x.user : u.role \notin allowedRoles
         THEN Mw(Json(x, 403, "AUTH_FORBIDDEN"), 0)
    ELSE Mw(x, 1)

\* The guard chains of the router: requireAuth alone; requireAuth, then
\* requireRole(HA_MANAGER) (requireHAManager); requirePropertyOwner after
\* requireAuth; a role gate mounted with no requireAuth before it; and
\* optionalAuth alone.
Routes ==
    { [chain |-> <<"requireAuth">>, allowedRoles |-> {}],
      [chain |-> <<"optionalAuth">>, allowedRoles |-> {}],
      [chain |-> <<"requireAuth", "requireRole">>, allowedRoles |-> {HA_MANAGER}],
      [chain |-> <<"requireAuth", "requireRole">>,
       allowedRoles |-> {PROPERTY_OWNER, HA_MANAGER}],
      [chain |-> <<"requireRole">>, allowedRoles |-> {HA_MANAGER}] }

\* Express: the middlewares of the route in order, each next() entering the
\* following one; after the last, the handler.
RECURSIVE dispatch(_, _, _, _, _)
dispatch(d, e, t, x, storeOk) ==
    LET i == Len(x.nexts) + 1 IN
    IF i > Len(x.route.chain) THEN [x EXCEPT !.handler = TRUE]
    ELSE LET m == IF x.route.chain[i] = "requireAuth"
                  THEN authenticateToken(d, e, t, x, storeOk)
                  ELSE IF x.route.chain[i] = "optionalAuth"
                  THEN optionalAuth(d, e, t, x, storeOk)
                  ELSE IF x.route.chain[i] = "requireSameUser"
                  THEN requireSameUser(x)
                  ELSE requireRole(x.route.allowedRoles, x)
         IN  CHOOSE end \in {IF o.next = 0 THEN [o.x EXCEPT !.nexts = Append(@, 0)]
                             ELSE dispatch(d, e, t, [o.x EXCEPT !.nexts = Append(@, o.next)],
                                           storeOk) : o \in {m}} : TRUE

\* ------------------------------------------- clients
\* The token strings a client can present: the tokens issued, a token the
\* client signed itself, and a string that is no JWT.
ForgedToken(t) ==
    sign([userId |-> 1, email |-> "m@x.is", role |-> HA_MANAGER],
         "forged-0123456789abcdef0123456789", ACCESS_TOKEN_EXPIRY, t)
TokenStrings == {<<i.jwt>> : i \in issued} \cup {<<ForgedToken(now)>>, <<Word("garbage")>>}

\* The Authorization headers: absent, 'Bearer', 'Bearer ', and for each token
\* string s: 'Bearer s', 'bearer s', 'Bearer  s'.
Headers ==
    {<<>>, <<Word("Bearer")>>, <<Word("Bearer"), SP>>}
        \cup {<<Word("Bearer"), SP>> \o s : s \in TokenStrings}
        \cup {<<Word("bearer"), SP>> \o s : s \in TokenStrings}
        \cup {<<Word("Bearer"), SP, SP>> \o s : s \in TokenStrings}

\* The server passed validateEnv and listens.
Serving == proc = "running"
\* The server listens and no exchange is observed.
Quiet == Serving /\ req.op = "none"
\* No exchange is observed, or the observed one is waiting for a store call:
\* another client's request can run.
Interleaved == Serving /\ (req.op = "none" \/ req.pc # "done")
Issue(kind, tokens) == issued' = issued \cup {[kind |-> kind, jwt |-> j] : j \in tokens}
IssuePair(tokens) ==
    issued' = issued \cup {[kind |-> "access", jwt |-> tokens.accessToken],
                           [kind |-> "refresh", jwt |-> tokens.refreshToken]}

\* POST /auth/register: registerUser, then generateTokens for the new user.
register ==
    /\ Interleaved
    /\ Cardinality(issued) + 2 <= MaxTokens
    /\ \E p \in RegisterPayloads : \E o \in {Run(db, registerUserStart(p))} :
          /\ o.r.pc = "done"
          /\ db' = o.db
          /\ IF o.r.status = 200
             THEN \E user \in userByEmail(o.db, p.email) :
                     \E tokens \in generateTokens(user, env, now).value : IssuePair(tokens)
             ELSE UNCHANGED issued
    /\ UNCHANGED <<call, proc, env, now, req>>

\* createErrorResponse(error, details) at time t
createErrorResponse(error, details, t) ==
    [success |-> FALSE, error |-> error, metadata |-> [timestamp |-> t], details |-> details]

\* The login controller: status, response body, and the tokens in it.
loginHandler(d, e, t, email, password) ==
    LET user == authenticateUser(d, email, password) IN
    IF user = {}
    THEN [status |-> 401, tokens |-> {},
          json |-> createErrorResponse("Authentication failed",
                      [code |-> "INVALID_CREDENTIALS",
                       details |-> "Invalid email or password"], t)]
    ELSE LET u == CHOOSE x \in user : TRUE
             tokens == generateTokens(u, e, t)
         IN  IF tokens.error # NULL
             THEN [status |-> 500, tokens |-> {},
                   json |-> createErrorResponse("Login failed",
                               [code |-> "LOGIN_ERROR",
                                details |-> "An error occurred during login"], t)]
             ELSE [status |-> 200, tokens |-> tokens.value,
                   json |-> [success |-> TRUE, message |-> "Login successful",
                             user |-> [id |-> u.id, email |-> u.email, role |-> u.role,
                                       kennitala |-> u.kennitala],
                             tokens |-> tokens.value]]

\* POST /auth/login: authenticateUser, then generateTokens; null is a 401.
login ==
    /\ Quiet
    /\ Cardinality(issued) + 2 <= MaxTokens
    /\ \E p \in RegisterPayloads : \E password \in {p.password, "wrong"} :
          \E out \in {loginHandler(db, env, now, p.email, password)} :
             /\ req' = [NoRequest EXCEPT !.op = "login",
                                         !.body = {[email |-> p.email, password |-> password]},
                                         !.status = out.status, !.sent = 1,
                                         !.json = {out.json}]
             /\ IF out.tokens = {} THEN UNCHANGED issued
                ELSE \E tokens \in out.tokens : IssuePair(tokens)
    /\ UNCHANGED <<db, call, proc, env, now>>

\* POST /auth/refresh: refreshAccessToken; a failure is a 401.
refreshToken ==
    /\ Quiet
    /\ Cardinality(issued) + 1 <= MaxTokens
    /\ \E s \in TokenStrings : \E out \in {refreshAccessToken(db, s, env, now)} :
          /\ Issue("access", out.value)
          /\ req' = [NoRequest EXCEPT
                        !.op = "refreshToken", !.body = {[refreshToken |-> s]},
                        !.status = IF out.error = NULL THEN 200 ELSE 401,
                        !.code = IF out.error = NULL THEN NULL ELSE "INVALID_REFRESH_TOKEN",
                        !.sent = 1,
                        !.json = IF out.error = NULL
                                 THEN {[success |-> TRUE, accessToken |-> out.value]}
                                 ELSE {createErrorResponse("Token refresh failed",
                                          [code |-> "INVALID_REFRESH_TOKEN",
                                           details |-> out.error], now)}]
    /\ UNCHANGED <<db, call, proc, env, now>>

\* DELETE /users/:userId: deleteUser.
deleteAccount ==
    /\ Interleaved
    /\ \E u \in db.users : \E o \in {Run(db, deleteUserStart(u.id))} : db' = o.db
    /\ UNCHANGED <<call, proc, env, now, issued, req>>

\* Time passes, up to an instant next to the expiry of a token issued: one
\* millisecond before it, or one millisecond after it.
Tick ==
    /\ Quiet
    /\ \E i \in issued : \E t \in {i.jwt.exp * 1000 - 1, i.jwt.exp * 1000 + 1} :
          t > now /\ now' = t
    /\ UNCHANGED <<db, call, proc, env, issued, req>>

\* A request to a guarded route: the exchange as the guards leave it.  The only
\* await of the chain is getUserById, and next() enters the following guard
\* synchronously: the chain sees the store at one instant.
request ==
    /\ Quiet
    /\ \E route \in Routes, authorization \in Headers, storeOk \in BOOLEAN :
          req' = dispatch(db, env, now,
                          [NoRequest EXCEPT !.op = "request", !.route = route,
                                            !.authorization = authorization],
                          storeOk)
    /\ UNCHANGED <<db, call, proc, env, now, issued>>

\* ------------------------------------------- /users/:userId
\* (mutant) every registered user may access every account
canUserAccessResourceAnyUser(d, userId, resourceUserId, requiredRole) ==
    userById(d, userId) # {}

\* UserService.canUserAccessResource(userId, resourceUserId, requiredRole)
canUserAccessResource(d, userId, resourceUserId, requiredRole) ==
    LET user == userById(d, userId) IN
    IF user = {} THEN FALSE
    ELSE IF userId = resourceUserId THEN TRUE
    ELSE IF requiredRole # NULL /\ \E u \in user : u.role = requiredRole THEN TRUE
    ELSE IF \E u \in user : u.role = HA_MANAGER THEN TRUE
    ELSE FALSE

\* GET /users/:userId and DELETE /users/:userId, behind requireAuth; and a
\* route behind requireAuth and requireSameUser().
UserRequests == {"getUserById", "deleteUser", "requireSameUser"}
UserRoute(op) ==
    [chain |-> IF op = "requireSameUser" THEN <<"requireAuth", "requireSameUser">>
               ELSE <<"requireAuth">>,
     allowedRoles |-> {}]

\* The guards of the route; the controller is entered, up to its first await,
\* when they all call next().
userRequestStart(d, e, t, op, target, authorization) ==
    LET x == dispatch(d, e, t,
                      [NoRequest EXCEPT !.op = op, !.route = UserRoute(op),
                                        !.authorization = authorization,
                                        !.target = target], TRUE)
    IN  IF ~x.handler THEN x
        ELSE IF op = "requireSameUser" THEN [x EXCEPT !.granted = TRUE]
        ELSE IF x.user = {} THEN Json(x, 401, "AUTH_REQUIRED")
        ELSE [x EXCEPT !.pc = "canAccess"]

\* const canAccess = await UserService.canUserAccessResource(req.user.id, userId,
\* UserRole.HA_MANAGER)
userRequestCanAccess(d, x) ==
    IF \E u \in x.user : canUserAccessResource(d, u.id, x.target, HA_MANAGER)
    THEN [x EXCEPT !.granted = TRUE, !.pc = "serve"]
    ELSE [Json(x, 403, "AUTH_FORBIDDEN") EXCEPT !.pc = "done"]

\* getUserById: UserService.getUserProfile(userId), 404 when null.
getUserByIdServe(d, x) ==
    IF userById(d, x.target) = {}
    THEN Out(d, [Json(x, 404, "USER_NOT_FOUND") EXCEPT !.pc = "done"])
    ELSE Out(d, [Json(x, 200, NULL) EXCEPT !.pc = "done"])

\* deleteUser: UserService.deleteUser(userId); its errors by their message.
deleteUserServe(d, x) ==
    LET o == Run(d, deleteUserStart(x.target))
        code == CASE o.r.status = 200 -> NULL
                  [] o.r.status = 404 -> "USER_NOT_FOUND"
                  [] o.r.status = 400 -> "USER_HAS_DEPENDENCIES"
                  [] OTHER -> "DELETE_USER_ERROR"
    IN  Out(o.db, [Json(x, o.r.status, code) EXCEPT !.pc = "done"])

\* A request for the account `target`, one store call of its controller at a time.
userRequest ==
    \/ /\ Quiet
       /\ \E op \in UserRequests, target \in UserIds :
             \E authorization \in {<<>>} \cup {<<Word("Bearer"), SP>> \o s : s \in TokenStrings} :
                req' = userRequestStart(db, env, now, op, target, authorization)
       /\ UNCHANGED <<db, call, proc, env, now, issued>>
    \/ /\ req.pc = "canAccess"
       /\ req' = userRequestCanAccess(db, req)
       /\ UNCHANGED <<db, call, proc, env, now, issued>>
    \/ /\ req.pc = "serve"
       /\ \E o \in {IF req.op = "deleteUser" THEN deleteUserServe(db, req)
                     ELSE getUserByIdServe(db, req)} :
             db' = o.db /\ req' = o.r
       /\ UNCHANGED <<call, proc, env, now, issued>>

\* POST /auth/logout, behind requireAuth: nothing is stored or revoked.
logout ==
    /\ Quiet
    /\ \E authorization \in {<<>>} \cup {<<Word("Bearer"), SP>> \o s : s \in TokenStrings} :
          \E x \in {dispatch(db, env, now,
                             [NoRequest EXCEPT !.op = "logout",
                                               !.route = [chain |-> <<"requireAuth">>,
                                                          allowedRoles |-> {}],
                                               !.authorization = authorization], TRUE)} :
             req' = IF x.handler THEN Json(x, 200, NULL) ELSE x
    /\ UNCHANGED <<db, call, proc, env, now, issued>>

\* The exchange is over; the next one can be observed.
endRequest ==
    /\ req.op # "none"
    /\ req.pc = "done"
    /\ req' = NoRequest
    /\ UNCHANGED <<db, call, proc, env, now, issued>>

InitAuth ==
    /\ InitStore
    /\ env \in ProcessEnvs
    /\ now = 0
    /\ issued = {}
    /\ req = NoRequest
    /\ proc = "starting"

NextAuth ==
    \/ validateEnv
    \/ register
    \/ login
    \/ refreshToken
    \/ deleteAccount
    \/ Tick
    \/ request
    \/ userRequest
    \/ logout
    \/ endRequest

SpecAuth == InitAuth /\ [][NextAuth]_vars

\* ------------------------------------------- principals and their tokens
\* The operations on principals and house associations one after the other,
\* with logins and refreshes in between.
FrameUsers == 2      \* users registered in this specification
FrameHAs == 1        \* house associations created in this specification

\* PUT /ha/:id: validateRequest, then the controller.
updateHARoute ==
    \/ \E haId \in HaIds, body \in UpdateHABodies, userId \in UserIds :
          Free /\ Advance(updateHAStartData(haId, validateRequest(body), userId))
    \/ Continue("updateHA")

NextFrame ==
    \/ (req.op = "none" /\ db.nextUserId <= FrameUsers /\ registerUser)
    \/ (req.op = "none" /\ updateUserProfile)
    \/ (req.op = "none" /\ changePassword)
    \/ (req.op = "none" /\ db.nextHaId <= FrameHAs /\ createHA)
    \/ (req.op = "none" /\ updateHARoute)
    \/ (req.op = "none" /\ addMember)
    \/ (req.op = "none" /\ removeMember)
    \/ (req.op = "none" /\ deleteUser)
    \/ return
    \/ (Free /\ login)
    \/ (Free /\ refreshToken)
    \/ endRequest

SpecFrame == Init /\ [][NextFrame]_vars

\* ====================================================================
\* Properties
\* ====================================================================
ObservedStep == call' # call
Returned(op) == call.op = op /\ call.pc = "done"
Member(d, userId, haId) == membershipCount(d, userId, haId) >= 1

\* C2: checkHAAccess(haId, userId, role) answers true exactly when the house
\* association exists and either its managerId is userId, or the role is
\* PROPERTY_OWNER and a membership row (userId, haId) exists; it answers false
\* in every other case, a missing house association and a failing store call
\* included, and always answers (it never throws).  Stated for every argument in
\* every reachable store, and for the answer of every observed call.
AccessExpected(d, haId, userId, userRole, storeOk) ==
    /\ storeOk
    /\ \E h \in d.has :
          /\ h.id = haId
          /\ (h.managerId = userId \/ (userRole = PROPERTY_OWNER /\ Member(d, userId, haId)))

C2_CheckAccessExact ==
    /\ \A haId \in HaIds, userId \in UserIds, userRole \in UserRole, storeOk \in BOOLEAN :
          checkHAAccess(db, haId, userId, userRole, storeOk)
             = AccessExpected(db, haId, userId, userRole, storeOk)
    /\ Returned("checkHAAccess") =>
          /\ call.status = 200
          /\ call.value = AccessExpected(db, call.haId, call.userId, call.userRole, call.storeOk)

\* A property owner who is a member was answered true, and a failing store call false.
C2_Witness ==
    /\ Returned("checkHAAccess")
    /\ call.userRole = PROPERTY_OWNER
    /\ call.storeOk
    /\ call.value = TRUE
    /\ \E h \in db.has : h.id = call.haId /\ h.managerId # call.userId

\* C3: in every reachable store, checkHAAccess(r.id, r.managerId, HA_MANAGER) is
\* true for every house association r that exists.
C3_ManagerReflexive ==
    \A h \in db.has : checkHAAccess(db, h.id, h.managerId, HA_MANAGER, TRUE)

\* After a house association was deleted, the manager of one that exists asked
\* and was answered true.
C3_Witness ==
    /\ Returned("checkHAAccess")
    /\ call.userRole = HA_MANAGER
    /\ call.value = TRUE
    /\ \E h \in db.has : h.id = call.haId /\ h.managerId = call.userId
    /\ db.nextHaId > Cardinality(db.has) + 1

\* C4: in every reachable store, for every user p with role PROPERTY_OWNER and
\* every house association r with no membership row (p, r),
\* checkHAAccess(r.id, p.id, PROPERTY_OWNER) is false.
C4_NonMemberDenied ==
    \A p \in db.users, h \in db.has :
        (p.role = PROPERTY_OWNER /\ ~Member(db, p.id, h.id))
            => ~checkHAAccess(db, h.id, p.id, PROPERTY_OWNER, TRUE)

\* A registered property owner, no member of an existing house association, was
\* answered false.
C4_Witness ==
    /\ Returned("checkHAAccess")
    /\ call.userRole = PROPERTY_OWNER
    /\ call.storeOk
    /\ call.value = FALSE
    /\ \E p \in db.users : p.id = call.userId /\ p.role = PROPERTY_OWNER
    /\ \E h \in db.has : h.id = call.haId
    /\ ~Member(db, call.userId, call.haId)

\* C5: the membership roster changes only at the request of the manager of the
\* house association: addMember and removeMember by a requester who is not its
\* manager end with 403, and a step of the observed call changes membership rows
\* only if the call is an addMember, removeMember or deleteHA whose requester is
\* the manager of the house association named.
MemberCalls == {"addMember", "removeMember"}
C5_Step ==
    /\ (/\ call'.pc = "done"
        /\ call'.op \in MemberCalls
        /\ \E h \in db'.has : h.id = call'.haId /\ h.managerId # call'.userId)
          => call'.status = 403
    /\ (ObservedStep /\ db'.memberships # db.memberships)
          => /\ call.op \in MemberCalls \cup {"deleteHA"}
             /\ \E h \in db.has : h.id = call.haId /\ h.managerId = call.userId
    /\ (ObservedStep /\ call'.pc = "done" /\ call'.status = 403) => db' = db
    /\ (ObservedStep /\ call.op = "deleteUser") => db'.memberships = db.memberships

C6_Step ==
    /\ \A p \in DOMAIN db'.memberships : db'.memberships[p] <= 1
    /\ (ObservedStep /\ call.op = "addMember" /\ call.pc = "findMembership"
          /\ Member(db, call.user, call.haId))
          => (call'.pc = "done" /\ call'.status = 409 /\ db' = db)
    /\ (ObservedStep /\ call.op = "addMember" /\ call.pc = "findUser"
          /\ userByKennitala(db, call.kennitala) = {})
          => (call'.pc = "done" /\ call'.status = 404 /\ db' = db)
    /\ (ObservedStep /\ call.op = "addMember" /\ call'.status \in {404, 409}) => db' = db

C6_MembershipUnique == [][C6_Step]_vars

\* A second add of a member ended with 409.
C6_Witness ==
    /\ Returned("addMember")
    /\ call.status = 409
    /\ \E p \in db.users : Member(db, p.id, call.haId)

\* C7: when the create of an addMember meets a membership row that another call
\* created after the pre-check, the unique index refuses the second row and the
\* call ends with 409, as a sequential duplicate add does.
RacingCreate ==
    /\ ObservedStep
    /\ call.op = "addMember"
    /\ call.pc = "create"
    /\ Member(db, call.user, call.haId)

C7_RaceIsConflict ==
    [][RacingCreate => (call'.pc = "done" /\ call'.status = 409 /\ db' = db)]_vars

\* C8: a membership grants access: for every user q and house association r
\* with a membership row (q, r), checkHAAccess(r.id, q.id, role of q) is true.
C8_MembershipGrantsAccess ==
    \A q \in db.users, h \in db.has :
        Member(db, q.id, h.id) => checkHAAccess(db, h.id, q.id, q.role, TRUE)

\* --------------------------------------------------------------------
\* C1: access and refresh tokens are never interchangeable: whatever the
\* configuration, no string returned by generateRefreshToken is accepted by
\* verifyToken(token, false), and no string returned by generateAccessToken is
\* accepted by refreshAccessToken.
C1_NeverInterchangeable ==
    \A i \in issued :
        /\ i.kind = "refresh" => verifyToken(<<i.jwt>>, FALSE, env, now).error # NULL
        /\ i.kind = "access" => refreshAccessToken(db, <<i.jwt>>, env, now).error # NULL

\* The Authorization header has the exact shape 'Bearer <token>'.
ExactShape(h) ==
    /\ Len(h) >= 3
    /\ h[1] = Word("Bearer")
    /\ h[2] = SP
    /\ \A i \in 3..Len(h) : h[i] # SP
PresentedToken(h) == SubSeq(h, 3, Len(h))
\* ... its token verifies as an access token ...
Verifies(h) == ExactShape(h) /\ verifyToken(PresentedToken(h), FALSE, env, now).error = NULL
\* ... and the principal it names exists in the store.
Principal(h) ==
    {u \in db.users :
        \E p \in verifyToken(PresentedToken(h), FALSE, env, now).value : u.id = p.userId}
Authentic(h) == Verifies(h) /\ Principal(h) # {}

ThroughRequireAuth == req.op = "request" /\ req.route.chain[1] = "requireAuth"
\* authenticateToken called next() once, with the principal and the claims attached
\* and no response of its own.
Passed ==
    /\ req.nexts[1] = 1
    /\ req.user = Principal(req.authorization)
    /\ req.tokenPayload = verifyToken(PresentedToken(req.authorization), FALSE, env, now).value
    /\ req.code \notin {"AUTH_TOKEN_MISSING", "AUTH_TOKEN_INVALID", "AUTH_USER_NOT_FOUND",
                        "AUTH_INTERNAL_ERROR"}
    /\ Len(req.route.chain) = 1 => (req.sent = 0 /\ req.handler)
\* authenticateToken sent one response, with `status`, and nothing else happened.
Refused(status) ==
    /\ req.nexts = <<0>>
    /\ req.sent = 1
    /\ req.status = status
    /\ req.user = {}
    /\ req.tokenPayload = {}
    /\ ~req.handler

\* C9, as stated: next() and the attachments exactly when the request is
\* authentic; a single 401 in every other case.
C9_AsStated ==
    ThroughRequireAuth => IF Authentic(req.authorization) THEN Passed ELSE Refused(401)

\* C9, amended: when the token verifies and the lookup of the principal fails
\* (the store call rejects), authenticateToken sends a single 500, calls no
\* next() and leaves req.user unset; otherwise it calls next() once with req.user
\* and req.tokenPayload attached exactly when the header has the shape
\* 'Bearer <token>', the token verifies as an access token and the principal
\* exists in the store, and sends a single 401 in every other case.
C9_AuthenticateToken ==
    ThroughRequireAuth =>
        IF req.lookup = "failed" THEN Verifies(req.authorization) /\ Refused(500)
        ELSE IF Authentic(req.authorization) THEN Passed
        ELSE Refused(401)

\* The token is valid, its principal was deleted since: 401.
C9_Witness ==
    /\ ThroughRequireAuth
    /\ Verifies(req.authorization)
    /\ Principal(req.authorization) = {}
    /\ req.lookup = "missing"
    /\ req.status = 401

\* C10: a role gate that is entered calls next() exactly when req.user is set
\* and its role is among allowedRoles; with req.user unset it answers 401, with
\* a role outside allowedRoles 403, and the handler is not reached.  The handler
\* behind requireAuth and requireRole(HA_MANAGER) runs only with req.user a row
\* of the store whose role is HA_MANAGER.
GateEntered(i) ==
    /\ req.op = "request"
    /\ i <= Len(req.nexts)
    /\ req.route.chain[i] = "requireRole"
C10_RoleGate ==
    /\ \A i \in 1..2 : GateEntered(i) =>
          /\ req.nexts[i] = 1 <=>
                (req.user # {} /\ \A u \in req.user : u.role \in req.route.allowedRoles)
          /\ req.user = {} => (req.status = 401 /\ req.sent = 1 /\ ~req.handler)
          /\ (\E u \in req.user : u.role \notin req.route.allowedRoles)
                => (req.status = 403 /\ req.sent = 1 /\ ~req.handler)
    /\ (/\ req.handler
        /\ req.route = [chain |-> <<"requireAuth", "requireRole">>,
                        allowedRoles |-> {HA_MANAGER}])
          => /\ req.user # {}
             /\ \A u \in req.user : u \in db.users /\ u.role = HA_MANAGER

\* A registered property owner with a valid token was stopped by requireRole(HA_MANAGER).
C10_Witness ==
    /\ GateEntered(2)
    /\ req.route.allowedRoles = {HA_MANAGER}
    /\ \E u \in req.user : u \in db.users /\ u.role = PROPERTY_OWNER
    /\ req.status = 403
    /\ req.nexts = <<1, 0>>
    /\ ~req.handler

\* --------------------------------------------------------------------
\* C11: a request that targets the account T passes the self-or-manager gate
\* (requireSameUser; canUserAccessResource in GET and DELETE /users/:userId)
\* only if the authenticated principal's id is T or its role is HA_MANAGER; a
\* PROPERTY_OWNER who targets another account is answered 403, and a step of
\* its request never removes a user row.
OwnerOnOther(x) ==
    /\ x.op \in UserRequests
    /\ \E u \in x.user : u.role = PROPERTY_OWNER /\ u.id # x.target
C11_Step ==
    /\ (req'.op \in UserRequests /\ req'.granted)
          => \E u \in req'.user : u.id = req'.target \/ u.role = HA_MANAGER
    /\ (req'.op \in {"getUserById", "deleteUser"} /\ req'.pc = "done" /\ req'.status = 200)
          => req'.granted
    /\ (OwnerOnOther(req') /\ req'.pc = "done") => (req'.status = 403 /\ ~req'.granted)
    /\ (OwnerOnOther(req) /\ req' # req) => db' = db

C11_SelfOrManager == [][C11_Step]_vars

\* A property owner asked to delete the account of another registered user, and
\* was answered 403; the account is still there.
C11_Witness ==
    /\ req.op = "deleteUser"
    /\ req.pc = "done"
    /\ req.status = 403
    /\ \E u \in req.user : u.role = PROPERTY_OWNER /\ u.id # req.target
    /\ userById(db, req.target) # {}

\* --------------------------------------------------------------------
\* C12: authenticateUser(email, password) returns the principal exactly when a
\* principal with that email exists and the password matches its stored hash,
\* and null otherwise; the login response is the same 401, with the same
\* error, code and details, for an unknown email and for a wrong password.
\* Stated for every email and password in every store reached (each is reached
\* with no exchange observed), and for every login observed.
Passwords == {p.password : p \in RegisterPayloads} \cup {"wrong"}
Emails == {p.email : p \in RegisterPayloads}
InvalidCredentials ==
    [status |-> 401, tokens |-> {},
     json |-> [success |-> FALSE, error |-> "Authentication failed",
               metadata |-> [timestamp |-> now],
               details |-> [code |-> "INVALID_CREDENTIALS",
                            details |-> "Invalid email or password"]]]
Matches(u, email, password) == u.email = email /\ u.password = hashPassword(password)
C12_AuthenticateUser ==
    /\ Quiet => \A email \in Emails, password \in Passwords :
          /\ authenticateUser(db, email, password)
                = {u \in db.users : Matches(u, email, password)}
          /\ (~\E u \in db.users : Matches(u, email, password))
                => loginHandler(db, env, now, email, password) = InvalidCredentials
          /\ (\E u \in db.users : Matches(u, email, password))
                => loginHandler(db, env, now, email, password).status = 200
    /\ req.op = "login" =>
          \A b \in req.body :
             IF \E u \in db.users : Matches(u, b.email, b.password)
             THEN req.status = 200
             ELSE req.status = 401 /\ req.json = {InvalidCredentials.json}

\* A login with the wrong password for a registered email was answered 401,
\* while another email is unregistered.
C12_Witness ==
    /\ req.op = "login"
    /\ req.status = 401
    /\ \E b \in req.body : \E u \in db.users : u.email = b.email
    /\ \E email \in Emails : userByEmail(db, email) = {}

\* --------------------------------------------------------------------
\* C13: refreshAccessToken returns a new access token only if the token
\* verifies as a refresh token and the principal it names exists in the store
\* at the time of the call; every failure is the one error 'Invalid refresh
\* token' (401 INVALID_REFRESH_TOKEN at the controller); a refresh token issued
\* to a principal that was deleted is rejected.
RefreshPrincipal(s) ==
    {u \in db.users : \E p \in verifyToken(s, TRUE, env, now).value : u.id = p.userId}
RefreshExpected(s) ==
    IF RefreshPrincipal(s) = {} THEN Thrown("Invalid refresh token")
    ELSE Returns(sign([userId |-> (CHOOSE u \in RefreshPrincipal(s) : TRUE).id,
                       email |-> (CHOOSE u \in RefreshPrincipal(s) : TRUE).email,
                       role |-> (CHOOSE u \in RefreshPrincipal(s) : TRUE).role],
                      env.JWT_SECRET, ACCESS_TOKEN_EXPIRY, now))
C13_RefreshAccessToken ==
    /\ Quiet => \A s \in TokenStrings : refreshAccessToken(db, s, env, now) = RefreshExpected(s)
    /\ Quiet => \A i \in issued :
          (i.kind = "refresh" /\ userById(db, i.jwt.userId) = {})
             => refreshAccessToken(db, <<i.jwt>>, env, now) = Thrown("Invalid refresh token")
    /\ req.op = "refreshToken" =>
          \A b \in req.body :
             IF req.status = 200
             THEN /\ verifyToken(b.refreshToken, TRUE, env, now).error = NULL
                  /\ RefreshPrincipal(b.refreshToken) # {}
                  /\ \E j \in req.json : \A a \in j.accessToken :
                        [kind |-> "access", jwt |-> a] \in issued
             ELSE /\ req.status = 401
                  /\ \E j \in req.json : j.details.details = "Invalid refresh token"
                  /\ RefreshPrincipal(b.refreshToken) = {}

\* An unexpired refresh token of a deleted principal was presented and refused.
C13_Witness ==
    /\ req.op = "refreshToken"
    /\ req.status = 401
    /\ \E i \in issued, b \in req.body :
          /\ i.kind = "refresh"
          /\ b.refreshToken = <<i.jwt>>
          /\ verifyToken(b.refreshToken, TRUE, env, now).error = NULL
          /\ userById(db, i.jwt.userId) = {}

\* --------------------------------------------------------------------
\* C14: token validity is stateless and a refresh token is not used up: a
\* refreshToken or logout exchange leaves store, keys and tokens issued as they
\* are, the outcome of verifying any issued token and of refreshing with any
\* token string is the same after it as before; a refresh with an unexpired
\* refresh token of an existing principal succeeds, and the access token it
\* returns verifies.
StatelessExchange == req' # req /\ req'.op \in {"refreshToken", "logout"}
C14_Step ==
    StatelessExchange =>
        /\ db' = db /\ env' = env /\ now' = now
        /\ issued \subseteq issued'
        /\ \A i \in issued, b \in BOOLEAN :
              verifyToken(<<i.jwt>>, b, env, now)' = verifyToken(<<i.jwt>>, b, env, now)
        /\ \A s \in TokenStrings :
              refreshAccessToken(db, s, env, now)' = refreshAccessToken(db, s, env, now)
        /\ req'.op = "refreshToken" =>
              \A b \in req'.body :
                 /\ (verifyToken(b.refreshToken, TRUE, env, now).error = NULL
                       /\ RefreshPrincipal(b.refreshToken) # {}) => req'.status = 200
                 /\ req'.status = 200 =>
                       \A j \in req'.json : \A a \in j.accessToken :
                          verifyToken(<<a>>, FALSE, env, now)'.error = NULL

C14_Stateless == [][C14_Step]_vars

\* A refresh succeeded with a refresh token that had been used before: an
\* access token made by refreshAccessToken at an earlier instant is still valid.
C14_Witness ==
    /\ req.op = "refreshToken"
    /\ req.status = 200
    /\ \E i \in issued, b \in req.body :
          /\ i.kind = "access"
          /\ i.jwt.iat > b.refreshToken[1].iat
          /\ i.jwt.iat < now \div 1000
          /\ i.jwt.userId = b.refreshToken[1].userId
          /\ verifyToken(<<i.jwt>>, FALSE, env, now).error = NULL

\* --------------------------------------------------------------------
\* C15: a token issued expires 15 minutes (access) or 7 days (refresh) after
\* the second of its issue; verified as its kind it succeeds at every instant
\* before exp and fails with 'Token has expired' (not 'Invalid token') at exp
\* and at every instant after it, one millisecond after included; once it has
\* failed as expired it fails as expired ever after.  Stated at every step
\* that issues a token or moves the clock.
VerifyAsIssued(i) == verifyToken(<<i.jwt>>, i.kind = "refresh", env, now)
Lifecycle(i) ==
    /\ i.jwt.exp = i.jwt.iat + (IF i.kind = "access" THEN 15 * 60 ELSE 7 * 24 * 60 * 60)
    /\ now < i.jwt.exp * 1000 => VerifyAsIssued(i).error = NULL
    /\ now >= i.jwt.exp * 1000 => VerifyAsIssued(i).error = "Token has expired"
C15_Step ==
    (issued' # issued \/ now' # now) => \A i \in issued' :
        /\ Lifecycle(i)'
        /\ (i \in issued /\ VerifyAsIssued(i).error = "Token has expired")
              => VerifyAsIssued(i)'.error = "Token has expired"

C15_TokenLifecycle == [][C15_Step]_vars

\* One millisecond after the expiry of an access token: it fails as expired,
\* and the refresh token issued with it still verifies.
C15_Witness ==
    \E i, r \in issued :
        /\ i.kind = "access" /\ r.kind = "refresh" /\ r.jwt.iat = i.jwt.iat
        /\ now = i.jwt.exp * 1000 + 1
        /\ VerifyAsIssued(i).error = "Token has expired"
        /\ VerifyAsIssued(r).error = NULL
\* --------------------------------------------------------------------
\* C16  signing keys
\* --------------------------------------------------------------------
\* A key that may sign or verify: present, and of 32 characters at least.
KeyOk(k) == k # NULL /\ length(k) >= 32
AccessKey(e) == e.JWT_SECRET
RefreshKey(e) == OrElse(e.JWT_REFRESH_SECRET, e.JWT_SECRET)
Payloads == {[userId |-> 1, email |-> p.email, role |-> p.role] : p \in RegisterPayloads}
KeyRequired == Thrown("JWT_SECRET environment variable is required")

\* The server never listens with a missing or short key configured, no token
\* was ever signed with such a key, and no token verifies against one.
StartedWithKeys ==
    /\ Serving =>
         /\ KeyOk(env.JWT_SECRET)
         /\ env.JWT_REFRESH_SECRET # NULL => KeyOk(env.JWT_REFRESH_SECRET)
    /\ proc = "exited" => envSchema(env) # {}
    /\ ~Serving => issued = {} /\ req = NoRequest
    /\ \A i \in issued : KeyOk(i.jwt.key)
    /\ Quiet => \A s \in TokenStrings, isRefresh \in BOOLEAN :
         verifyToken(s, isRefresh, env, now).error = NULL =>
            KeyOk(IF isRefresh THEN RefreshKey(env) ELSE AccessKey(env))

\* The three functions throw when their key is missing.
ThrowOnMissingKey ==
    \A e \in ProcessEnvs, payload \in Payloads :
        /\ AccessKey(e) = NULL =>
             /\ generateAccessToken(payload, e, now) = KeyRequired
             /\ verifyToken(<<sign(payload, SecretA, ACCESS_TOKEN_EXPIRY, now)>>, FALSE, e, now)
                    = KeyRequired
        /\ RefreshKey(e) = NULL =>
             /\ generateRefreshToken(payload, e, now) = KeyRequired
             /\ verifyToken(<<sign(payload, SecretA, REFRESH_TOKEN_EXPIRY, now)>>, TRUE, e, now)
                    = KeyRequired

\* The three functions throw when their key is shorter than 32 characters.
ThrowOnShortKey ==
    \A e \in ProcessEnvs, payload \in Payloads :
        /\ AccessKey(e) # NULL /\ ~KeyOk(AccessKey(e)) =>
             /\ generateAccessToken(payload, e, now).error # NULL
             /\ verifyToken(<<sign(payload, AccessKey(e), ACCESS_TOKEN_EXPIRY, now)>>,
                            FALSE, e, now).error # NULL
        /\ RefreshKey(e) # NULL /\ ~KeyOk(RefreshKey(e)) =>
             /\ generateRefreshToken(payload, e, now).error # NULL
             /\ verifyToken(<<sign(payload, RefreshKey(e), REFRESH_TOKEN_EXPIRY, now)>>,
                            TRUE, e, now).error # NULL

\* C16 (as stated): no token is signed or verified with a missing or short
\* key: the service refuses to start with one, and generateAccessToken,
\* generateRefreshToken and verifyToken throw instead of using one.
C16_AsStated == StartedWithKeys /\ ThrowOnMissingKey /\ ThrowOnShortKey

\* C16 (amended): the service refuses to start with a missing or short key, so
\* that no token is signed or verified with one while it serves; the three
\* functions themselves throw for a missing key only.
C16_KeyPolicy == StartedWithKeys /\ ThrowOnMissingKey

\* The server exited at startup over a short JWT_REFRESH_SECRET next to a valid
\* JWT_SECRET.
C16_Witness ==
    /\ proc = "exited"
    /\ KeyOk(env.JWT_SECRET)
    /\ env.JWT_REFRESH_SECRET = ShortKey

\* --------------------------------------------------------------------
\* C17  emails and kennitalas are unique
\* --------------------------------------------------------------------
Held(d, p) ==
    \/ userByEmail(d, p.email) # {}
    \/ p.kennitala # NULL /\ userByKennitala(d, p.kennitala) # {}
HeldByAnother(d, userId, kennitala) ==
    {u \in userByKennitala(d, kennitala) : u.id # userId} # {}

\* C17: no two users share an id, an email or a non-null kennitala, whatever
\* the interleaving of registerUser, updateUserProfile and deleteUser calls; a
\* registerUser whose email or kennitala is held ends with 409 and an
\* updateUserProfile to a kennitala held by another user fails with 409, both
\* leaving the store as it was.
C17_UsersUnique ==
    /\ \A u, v \in db.users :
         u # v => /\ u.id # v.id
                  /\ u.email # v.email
                  /\ u.kennitala # NULL => u.kennitala # v.kennitala
    /\ Free => \A p \in RegisterPayloads \cup WeakPayloads :
         Held(db, p) => \E o \in {Run(db, registerUserStart(p))} :
                           o.r.status = 409 /\ o.db = db
    /\ Free => \A u \in db.users, k \in Kennitalas :
         HeldByAnother(db, u.id, k) =>
            \E o \in {Run(db, updateUserProfileStart(u.id, k))} :
                o.r.status = 409 /\ o.db = db

\* The observed updateUserProfile lost a race: the kennitala was free when it
\* looked, another user took it, and the unique index refused the write.
C17_Witness ==
    /\ call.op = "updateUserProfile"
    /\ call.pc = "done"
    /\ call.status = 500
    /\ \E u \in db.users : u.id = call.userId
    /\ Cardinality(db.users) >= 2

\* --------------------------------------------------------------------
\* C18  password strength at registration
\* --------------------------------------------------------------------
PolicyPasswords ==
    {p.password : p \in {q \in RegisterPayloads \cup WeakPayloads :
                            validatePasswordStrength(q.password).isValid}}

\* C18 (as stated): every stored credential is the hash of a password that
\* meets every rule, and a registerUser call whose password misses a rule is
\* rejected before the step that hashes the password and creates the row.
C18_ValidatedBeforeHash ==
    /\ \A u \in db.users : \E password \in PolicyPasswords : u.password = hashPassword(password)
    /\ call.op = "registerUser" /\ call.pc = "create" =>
         validatePasswordStrength(call.password).isValid

\* --------------------------------------------------------------------
\* C19  registration numbers are unique
\* --------------------------------------------------------------------
Managers(d) == {u \in d.users : u.role = HA_MANAGER}
UsedByAnother(d, reg, haId) == {h \in d.has : h.registrationNum = reg /\ h.id # haId} # {}

\* C19: no two house associations share an id or a registration number,
\* whatever the interleaving of calls; a manager's createHA with a number in
\* use ends with 409 and creates nothing; the manager's updateHA to a number
\* another house association uses ends with 409 and changes nothing; the
\* manager's updateHA to the house association's own number succeeds.
C19_RegistrationNumUnique ==
    /\ \A g, h \in db.has :
         g # h => g.id # h.id /\ g.registrationNum # h.registrationNum
    /\ Free => \A m \in Managers(db), g \in db.has :
         \E o \in {Run(db, createHAStart(m.id, g.registrationNum))} :
             o.r.status = 409 /\ o.db = db
    /\ Free => \A h \in db.has, reg \in RegistrationNums :
         \E o \in {Run(db, updateHAStart(h.id, reg, h.managerId))} :
             /\ UsedByAnother(db, reg, h.id) => o.r.status = 409 /\ o.db = db
             /\ reg = h.registrationNum => o.r.status = 200 /\ o.db = db

\* Two house associations exist and the observed updateHA, by the manager, to
\* the number of the other one was refused with 409.
C19_Witness ==
    /\ Cardinality(db.has) = 2
    /\ call.op = "updateHA"
    /\ call.pc = "done"
    /\ call.status = 409
    /\ \E h \in db.has : h.id = call.haId /\ h.managerId = call.userId

\* --------------------------------------------------------------------
\* C20  only the manager updates or deletes a house association
\* --------------------------------------------------------------------
HACalls == {"updateHA", "deleteHA"}
ManagerOf(d, haId, userId) == \E h \in d.has : h.id = haId /\ h.managerId = userId

\* C20: the first store call of updateHA(haId, data, userId) and of
\* deleteHA(haId, userId) is the manager check: the call ends there with 404
\* when no house association has the id and with 403 when its managerId is not
\* userId, the store unchanged; only a call that passed the check writes, and
\* a call that ends with 403 or 404 has written nothing.
C20_Step ==
    /\ (call.pc = "idle" /\ call'.op \in HACalls) =>
         /\ db' = db
         /\ IF haById(db, call'.haId) = {}
            THEN call'.pc = "done" /\ call'.status = 404
            ELSE IF ~ManagerOf(db, call'.haId, call'.userId)
                 THEN call'.pc = "done" /\ call'.status = 403
                 ELSE call'.pc # "done"
    /\ (ObservedStep /\ call'.op \in HACalls /\ db' # db) =>
         /\ call.op = call'.op
         /\ call.pc \in {"update", "transaction"}
         /\ call'.status = 200
         /\ ManagerOf(db, call.haId, call.userId)
    /\ (ObservedStep /\ call'.op \in HACalls /\ call'.pc = "done" /\ call'.status \in {403, 404})
          => db' = db
    /\ (ObservedStep /\ db'.has # db.has /\ call'.op \notin HACalls)
          => call'.op = "createHA" /\ db.has \subseteq db'.has

C20_OnlyManagerMutates == [][C20_Step]_vars

\* A user who manages another house association was refused, with 403, the
\* update or deletion of one that has members and that they do not manage.
C20_Witness ==
    /\ call.pc = "done"
    /\ call.op \in HACalls
    /\ call.status = 403
    /\ \E h \in db.has : h.id = call.haId /\ h.managerId # call.userId
    /\ \E h \in db.has : h.id # call.haId /\ h.managerId = call.userId
    /\ \E u \in db.users : Member(db, u.id, call.haId)

\* --------------------------------------------------------------------
\* C21  every house association has a manager
\* --------------------------------------------------------------------
\* C21: in every reachable store each house association's managerId names a
\* user that exists and has the role HA_MANAGER, whatever the interleaving of
\* calls; createHA succeeds only for such a user and records it as manager;
\* deleteUser of a user that manages a house association fails and deletes
\* nothing.
C21_ManagerExists ==
    /\ \A h \in db.has : \E u \in db.users : u.id = h.managerId /\ u.role = HA_MANAGER
    /\ Free => \A managerId \in UserIds, reg \in RegistrationNums :
         \E o \in {Run(db, createHAStart(managerId, reg))} :
            o.r.status = 200 =>
               /\ \E u \in db.users : u.id = managerId /\ u.role = HA_MANAGER
               /\ \E h \in o.db.has : /\ h \notin db.has
                                       /\ h.managerId = managerId
                                       /\ o.db.has = db.has \cup {h}
    /\ Free => \A u \in db.users :
         managedHAs(db, u.id) # {} =>
            \E o \in {Run(db, deleteUserStart(u.id))} : o.r.status = 400 /\ o.db = db

\* The observed deleteUser found no house association managed by the user,
\* the user then created one, and the foreign key refused the deletion.
C21_Witness ==
    /\ call.op = "deleteUser"
    /\ call.pc = "done"
    /\ call.status = 500
    /\ managedHAs(db, call.userId) # {}
    /\ \A h \in HaIds : membershipCount(db, call.userId, h) = 0

\* --------------------------------------------------------------------
\* C22  deleting a user removes its memberships
\* --------------------------------------------------------------------
MembershipsOf(d, userId) == {h \in HaIds : membershipCount(d, userId, h) >= 1}

\* C22 (as stated): no membership row references a user that does not exist,
\* and deleteUser of a user that manages no house association succeeds,
\* membership rows or not, leaving no membership row of that user.
C22_DeleteRemovesMemberships ==
    /\ \A userId \in UserIds :
         MembershipsOf(db, userId) # {} => userById(db, userId) # {}
    /\ Free => \A u \in db.users :
         managedHAs(db, u.id) = {} =>
            \E o \in {Run(db, deleteUserStart(u.id))} :
               /\ o.r.status = 200
               /\ userById(o.db, u.id) = {}
               /\ MembershipsOf(o.db, u.id) = {}

\* --------------------------------------------------------------------
\* C23  deleteHA deletes the house association and its rows together
\* --------------------------------------------------------------------
\* What every client reads: no membership row of a house association that is
\* gone.
NoOrphanMembership(d) ==
    \A u \in UserIds, h \in HaIds : membershipCount(d, u, h) >= 1 => haById(d, h) # {}

\* C23: in every state other clients can read, a membership row references a
\* house association that exists; a deleteHA that succeeds leaves neither the
\* house association nor a membership row of it; a deleteHA that fails, at any
\* step, has deleted nothing; no step of deleteHA before the last one changes
\* the store.
C23_Step ==
    /\ NoOrphanMembership(db')
    /\ (ObservedStep /\ call'.op = "deleteHA") =>
         IF call'.pc = "done" /\ call'.status = 200
         THEN /\ haById(db', call'.haId) = {}
              /\ \A u \in UserIds : membershipCount(db', u, call'.haId) = 0
              /\ db'.users = db.users
              /\ db'.has = db.has \ haById(db, call'.haId)
              /\ \A u \in UserIds, h \in HaIds \ {call'.haId} :
                    membershipCount(db', u, h) = membershipCount(db, u, h)
         ELSE db' = db

C23_DeleteHAAtomic == [][C23_Step]_vars

\* A member was added between the transaction's deleteMany and its delete of
\* the house association: the transaction was rolled back, and the house
\* association and its members are still there.
C23_Witness ==
    /\ call.op = "deleteHA"
    /\ call.pc = "done"
    /\ call.status = 500
    /\ \E h \in db.has : h.id = call.haId /\ h.managerId = call.userId
    /\ \E u \in db.users : Member(db, u.id, call.haId)

\* --------------------------------------------------------------------
\* C24  errors at the boundary of the HA and member services
\* --------------------------------------------------------------------
HAOps == {r.op : r \in HAStarts}
Raw(r) == "thrown" \in DOMAIN r
ManagerCalls == {"updateHA", "deleteHA", "addMember", "removeMember"}
\* The outcomes that are ApiErrors, and the success.
ApiStatus == {200, 403, 404, 409, 500}
Ended(op) == ObservedStep /\ call'.op = op /\ call'.pc = "done"

\* The statuses of the domain errors are those raised for the reason they name:
\* 403 for a requester who is not the manager, has not the role or has no
\* access, 404 for a missing row, 409 for a row that is there already.
DomainErrors ==
    \A op \in HAOps :
       (Ended(op) /\ ~Raw(call')) =>
          /\ call'.status \in ApiStatus
          /\ call'.status # 200 => db' = db
          /\ (call'.status = 403 /\ op \in ManagerCalls) =>
                haById(db, call'.haId) # {} /\ ~ManagerOf(db, call'.haId, call'.userId)
          /\ (call'.status = 403 /\ op \in Reads) =>
                ~checkHAAccess(db, call'.haId, call'.userId, call'.userRole, TRUE)
          /\ (call'.status = 403 /\ op = "createHA") =>
                \E u \in db.users : u.role # HA_MANAGER
          /\ (call'.status = 404 /\ op \in ManagerCalls \cup Reads /\ call.pc \in {"idle", "findUnique"})
                => haById(db, call'.haId) = {}
          /\ (call'.status = 404 /\ op = "addMember" /\ call.pc = "findUser")
                => userByKennitala(db, call.kennitala) = {}
          /\ (call'.status = 404 /\ op = "removeMember" /\ call.pc = "findMembership")
                => membershipCount(db, call.user, call.haId) = 0
          /\ (call'.status = 409 /\ op \in {"createHA", "updateHA"}) =>
                call.pc = "validateRegistrationNumber"
                   /\ UsedByAnother(db, call.registrationNum, Arg(call, "haId"))
          /\ (call'.status = 409 /\ op = "addMember") =>
                membershipCount(db, call.user, call.haId) >= 1
          /\ call'.status = 409 => op \in {"createHA", "updateHA", "addMember"}

\* C24 (as stated): every outcome of createHA, getHAById, updateHA, deleteHA,
\* addMember, removeMember and listMembers is a success or an ApiError; a 403,
\* 404 or 409 raised inside the operation reaches the caller as it is; a store
\* call that throws ends the operation with 500, nothing written.
C24_StepAsStated ==
    /\ DomainErrors
    /\ \A op \in HAOps :
         (Ended(op) /\ Raw(call')) => call'.status = 500 /\ db' = db

C24_AsStated == [][C24_StepAsStated]_vars

\* C24 (amended): as stated, except that a store call that throws inside
\* checkHAAccess ends getHAById and listMembers with 403.
C24_Step ==
    /\ DomainErrors
    /\ \A op \in HAOps :
         (Ended(op) /\ Raw(call')) =>
            /\ db' = db
            /\ call'.status \in ApiStatus
            /\ IF op \in Reads /\ (call.pc = "checkHAAccess" \/ (op = "listMembers" /\ call.pc = "idle"))
               THEN call'.status = 403
               ELSE call'.status = 500

C24_ErrorPolicy == [][C24_Step]_vars

\* The store threw in the delete transaction of a house association with a
\* member, by its manager: the call ended with 500 and everything is there.
C24_Witness ==
    /\ call.op = "deleteHA"
    /\ call.pc = "done"
    /\ Raw(call)
    /\ call.status = 500
    /\ ManagerOf(db, call.haId, call.userId)
    /\ \E u \in db.users : Member(db, u.id, call.haId)

\* --------------------------------------------------------------------
\* C25  optionalAuth
\* --------------------------------------------------------------------
ThroughOptionalAuth == req.op = "request" /\ req.route.chain[1] = "optionalAuth"

\* C25: optionalAuth calls next() once and sends no response, whatever the
\* request; req.user and req.tokenPayload are the principal and the claims of
\* the token exactly when the header is 'Bearer <token>', the token verifies
\* as an access token, the principal it names exists and the lookup did not
\* fail; in every other case both are unset and the handler runs all the same.
C25_OptionalAuth ==
    ThroughOptionalAuth =>
        /\ req.nexts = <<1>>
        /\ req.sent = 0
        /\ req.status = NoRequest.status
        /\ req.handler
        /\ IF Authentic(req.authorization) /\ req.lookup # "failed"
           THEN /\ req.user = Principal(req.authorization)
                /\ req.tokenPayload =
                      verifyToken(PresentedToken(req.authorization), FALSE, env, now).value
           ELSE req.user = {} /\ req.tokenPayload = {}

\* A request with the valid access token of a deleted account went through
\* optionalAuth and reached the handler unauthenticated.
C25_Witness ==
    /\ ThroughOptionalAuth
    /\ Verifies(req.authorization)
    /\ req.lookup = "missing"
    /\ req.handler

\* --------------------------------------------------------------------
\* C26  validateKennitala
\* --------------------------------------------------------------------
IsLetter(c) == c \in {"a"}
\* Ten digits, or six digits, a hyphen and four digits.
TenDigits(s) ==
    \/ Len(s) = 10 /\ \A i \in 1..10 : IsDigit(s[i])
    \/ Len(s) = 11 /\ s[7] = "-" /\ \A i \in (1..11) \ {7} : IsDigit(s[i])
DayOf(s) == parseInt(SubSeq(s, 1, 2))
MonthOf(s) == parseInt(SubSeq(s, 3, 4))
WellFormed(s) ==
    /\ TenDigits(s)
    /\ DayOf(s) \in 1..31
    /\ MonthOf(s) \in 1..12

Discloses(r) == "value" \in DOMAIN r
Granted(d, r) == checkHAAccess(d, r.haId, r.userId, r.userRole, TRUE)

\* C27: getHAById and listMembers read the data they return only after
\* checkHAAccess answered true for the requester, and return nothing
\* otherwise; getHAById ends with 404 when the house association does not
\* exist, and with 403 when the access check answers false.
C27_Step ==
    \A op \in Reads :
       (ObservedStep /\ call'.op = op) =>
          /\ Discloses(call') =>
                /\ call'.status = 200
                /\ call.op = op /\ call.pc \in {"findUnique", "findMany"}
                /\ op = "getHAById" => call'.value = haById(db, call.haId)
                /\ op = "listMembers" =>
                      call'.value = {u \in UserIds : Member(db, u, call.haId)}
          /\ call'.status = 200 => Discloses(call')
          /\ call'.pc \in {"findUnique", "findMany"} => Granted(db, call')
          /\ (op = "getHAById" /\ call.pc = "idle" /\ ~Raw(call')) =>
                (haById(db, call'.haId) = {} <=> (call'.pc = "done" /\ call'.status = 404))
          /\ (op = "getHAById" /\ call.pc = "findUnique" /\ ~Raw(call')) =>
                (haById(db, call'.haId) = {} <=> call'.status = 404)
          /\ (call.pc = "checkHAAccess" \/ (op = "listMembers" /\ call.pc = "idle")) =>
                (~Granted(db, call') => (call'.pc = "done" /\ call'.status = 403))

C27_DisclosureGated == [][C27_Step]_vars

\* getHAById by a property owner who is no member of the house association,
\* which exists: refused with 403.
C27_Witness ==
    /\ call.op = "getHAById"
    /\ call.pc = "done"
    /\ call.status = 403
    /\ ~Raw(call)
    /\ haById(db, call.haId) # {}
    /\ userById(db, call.userId) # {}
    /\ ~Granted(db, call)

\* --------------------------------------------------------------------
\* C28  listHAs selects what checkHAAccess grants
\* --------------------------------------------------------------------
\* The options of a principal: its id and its stored role.
OptionsOf(p) == [userId |-> {p.id}, userRole |-> {p.role}]
Accessible(d, p) == {h \in d.has : checkHAAccess(d, h.id, p.id, p.role, TRUE)}

\* C28: for every principal p, the house associations listHAs selects for
\* (p.id, p.role) are those for which checkHAAccess(r.id, p.id, p.role) is
\* true; and a listing that was answered is that set.
C28_ListingAgrees ==
    /\ Free => \A p \in db.users :
                  listHAsRun(db, OptionsOf(p), TRUE).value = Accessible(db, p)
    /\ (call.op = "listHAs" /\ call.status = 200) =>
          \A p \in db.users :
             call.options = OptionsOf(p) => call.value = Accessible(db, p)

\* A property owner listed the one house association it is a member of, while
\* another house association exists.
C28_Witness ==
    /\ call.op = "listHAs"
    /\ call.status = 200
    /\ \E p \in db.users :
          /\ p.role = PROPERTY_OWNER
          /\ call.options = OptionsOf(p)
          /\ call.value # {}
          /\ call.value # db.has

\* --------------------------------------------------------------------
\* C30  changePassword
\* --------------------------------------------------------------------
CredentialOf(d, userId) == {u.password : u \in userById(d, userId)}
\* The observed changePassword call wrote the credential.
Replaced ==
    /\ ObservedStep
    /\ call.op = "changePassword"
    /\ call.pc = "update"
    /\ call'.status = 200
\* The observed changePassword call ended with an error.
Failed ==
    /\ ObservedStep
    /\ call'.op = "changePassword"
    /\ call'.pc = "done"
    /\ call'.status # 200

\* What holds as stated and as amended: the call goes on to the update only
\* from a row whose hash matches currentPassword, with a newPassword the
\* policy accepts; the update writes the hash of newPassword and nothing else
\* of the row, and the new password then authenticates; a change of the
\* credential in a step of the call is that update; a call that fails leaves
\* the store as it is.
ChangeGated ==
    /\ (ObservedStep /\ call'.op = "changePassword" /\ call'.pc = "update") =>
          /\ \E u \in userById(db, call'.userId) :
                comparePassword(call'.currentPassword, u.password)
          /\ validatePasswordStrength(call'.newPassword).isValid
          /\ db' = db
    /\ Replaced =>
          /\ \E u \in userById(db, call.userId) :
                /\ db'.users = (db.users \ {u})
                                  \cup {[u EXCEPT !.password = hashPassword(call.newPassword)]}
                /\ authenticateUser(db', u.email, call.newPassword)
                      = userById(db', call.userId)
          /\ userById(db', call.userId) # {}
    /\ (ObservedStep /\ call'.op = "changePassword"
           /\ CredentialOf(db', call'.userId) # CredentialOf(db, call'.userId)) => Replaced
    /\ Failed => db' = db

\* C30 (as stated): ... and after a change that succeeded authenticateUser
\* with the old password returns null.
C30_StepAsStated ==
    /\ ChangeGated
    /\ Replaced =>
          \A u \in userById(db, call.userId) :
             authenticateUser(db', u.email, call.currentPassword) = {}

C30_Step ==
    /\ ChangeGated
    /\ Replaced =>
          \A u \in userById(db, call.userId) :
             IF call.newPassword # call.currentPassword
             THEN authenticateUser(db', u.email, call.currentPassword) = {}
             ELSE authenticateUser(db', u.email, call.currentPassword)
                    = userById(db', call.userId)

C29_Step ==
    /\ \A u \in db.users : \A v \in userById(db', u.id) :
          v.email = u.email /\ v.role = u.role
    /\ \A u \in db.users : \A v \in userByEmail(db', u.email) : v.id = u.id
    /\ \A h \in db.has : \A g \in haById(db', h.id) : g.managerId = h.managerId
    /\ \A i \in issued' : \A u \in userById(db', i.jwt.userId) : u.role = i.jwt.role

====
